---------------------------- MODULE Spec2Model ----------------------------
(***************************************************************************)
(* State-machine model of the Nex-t1 Heavy coordination engine:            *)
(*   - TaskDispatcherService   (src/src/core/tasks/task-dispatcher.service.ts) *)
(*   - MessageBusService       (src/src/core/communication/message-bus.service.ts) *)
(*   - StateManagerService     (src/unnamed/part_013)                      *)
(*   - OrchestratorService     (src/unnamed/part_011)                      *)
(*   - BaseAgent               (src/src/core/agents/base-agent.ts)         *)
(* Each component has its own specification (SpecQueue, SpecStore, ...)    *)
(* over the shared variables; a component's actions leave the variables of *)
(* the other components unchanged.                                         *)
(***************************************************************************)
EXTENDS Integers, Sequences, FiniteSets, TLC

(***************************************************************************)
(* Closed sets of the interfaces (src/unnamed/part_009, part_010).         *)
(***************************************************************************)
AgentPersona ==
  {"tech_lead", "product_engineer", "qa_engineer",
   "devops_specialist", "doc_specialist", "code_reviewer"}

Priority == {"LOW", "MEDIUM", "HIGH", "CRITICAL"}

DevelopmentPhase == {"planning", "scaffold", "feature", "test", "review", "deploy"}

\* The order the spec gives to Priority (CRITICAL highest); used only to
\* state claims, never by the dispatcher.
PriorityRank(p) ==
  CASE p = "LOW" -> 1 [] p = "MEDIUM" -> 2 [] p = "HIGH" -> 3 [] p = "CRITICAL" -> 4

RangeOf(s) == {s[i] : i \in 1..Len(s)}

\* The initial segments of a sequence: what a loop has processed so far.
SeqsUpTo(S, n) == UNION {[1..k -> S] : k \in 0..n}

(***************************************************************************)
(* Bounds of the model.                                                    *)
(***************************************************************************)
MaxJobs == 3
MaxMixedFailures == 1
MaxRetryJobs == 2
MaxFailures == 4
MaxStoreOps == 5
MaxSubscriptions == 2
MaxHandlers == 1
MaxMessages == 2
MaxRequestSubscriptions == 1
MaxRequests == 2
MaxPhaseCalls == 2
MaxPhaseOps == 2
MaxAgentTasks == 1
MaxRoles == 3
MaxConflicts == 1
MaxPhaseRequests == 3
MaxTaskRequests == 2
MaxOverloadSignals == 1
MaxIntakePhaseCalls == 1
MaxLookups == 2
MaxLookupJobs == 2
MaxLookupId == 2
MaxEventJobs == 2
MaxDrainPolls == 3
MaxQueuedTasks == 1
MaxDrainCalls == 2
MaxHistoryMessages == 1002
MaxHistorySnapshots == 102
MaxLimit == 3
MaxListedSnapshots == 3
MaxPendingConflicts == 2

VARIABLES
  \* ---- TaskDispatcherService / BullMQ --------------------------------
  taskQueues,      \* roles that have a Queue + Worker (Map keys)
  jobs,            \* every job ever added, by job id (1..Len)
  waitOrder,       \* the waiting job ids, in the order they began to wait
  retriedCount,    \* return value of the last retryFailedTasks, or -1
  taskEvents,      \* every event the dispatcher emitted: {[event, taskId]}
  \* ---- StateManagerService ------------------------------------------
  heap,            \* the objects of the process, by address (1..Len)
  currentState,    \* address of the live SystemState object
  stateHistory,    \* the StateSnapshot objects retained, oldest first
  redis,           \* the durable keys: current (<<>> or <<state>>), snapshots,
                   \* agents (agent:<persona>), context (<<>> or <<record>>)
  retrieved,       \* the list a caller got from its last getStateHistory
  lifecycle,       \* "constructed" | "running" | "stopped"
  nextSnapshotId,  \* stands for uuidv4(): ids are never reused
  storeOps,        \* calls made so far (bound of the model)
  lastOp,          \* the last State Store call and its outcome
  returned,        \* what the last read handed its caller: kind and address
  redisUp,         \* commands on the Redis connection succeed
  \* ---- MessageBusService / Redis pub-sub ----------------------------
  listening,       \* the 'pmessage' listener is installed (onModuleInit ran)
  redisPatterns,   \* patterns the subscriber connection is psubscribed to
  redisChannels,   \* reply channels the subscriber connection is subscribed to
  subscriptions,   \* Map subscriptionId -> [agentId, patterns]
  messageHandlers, \* Map handlerId -> [pattern, throws]
  nextBusId,       \* stands for uuidv4() in subscribe / registerHandler
  published,       \* every message handed to Redis, by message id (1..Len)
  messageHistory,  \* ids of the messages kept by addToHistory, oldest first
  pmessages,       \* 'pmessage' events on their way to the listener
  callbackCalls,   \* subscriptionId -> messages its callback was called with
  handlerCalls,    \* handlerId -> messages its handler was called with
  requests,        \* every requestResponse call, by position (1..Len)
  replies,         \* 'message' events (replies) on their way to the listeners
  \* ---- OrchestratorService / BaseAgent -----------------------------
  currentPhase,    \* OrchestratorService.currentPhase
  activeAgents,    \* Map persona -> AgentStatus
  agents,          \* Map persona -> BaseAgent (state, currentTasks, running)
  calls,           \* every initializePhase / transitionPhase call (1..Len)
  nextTaskId,      \* ids of the tasks handed to executeTask
  taskQueue,       \* OrchestratorService.taskQueue (task ids)
  conflictResolutionStrategy,  \* its type
  conflicts,       \* every resolveConflict call, by position (1..Len)
  \* ---- SystemController / TasksController / event emitter -----------
  phaseRequests,   \* every phase request of SystemController (1..Len)
  taskRequests,    \* every createTask request of TasksController (1..Len)
  overloadSignals, \* every 'agent:overloaded' event emitted (1..Len)
  lookups,         \* every call by id made by a client, with its outcome
  \* ---- one BaseAgent ------------------------------------------------
  baseAgent,       \* its fields: state, currentTasks, messageQueue, metrics
  execs,           \* every executeTask call on it and where it stands
  drains,          \* every processMessageQueue loop and where it stands
  agentEvents,     \* the events it emitted, and whether a listener heard them
  inbox,           \* every message given to processMessage (1..Len)
  handled,         \* the messages given to handleMessage, in that order
  shutdownPc       \* where its shutdown() call stands

queueVars == <<taskQueues, jobs, waitOrder, retriedCount, taskEvents>>

clientVars == <<returned, redisUp>>

storeVars == <<heap, currentState, stateHistory, redis, retrieved, lifecycle,
               nextSnapshotId, storeOps, lastOp, clientVars>>

busVars == <<listening, redisPatterns, redisChannels, subscriptions,
             messageHandlers, nextBusId, published, messageHistory, pmessages,
             callbackCalls, handlerCalls, requests, replies>>

orchVars == <<currentPhase, activeAgents, agents, calls, nextTaskId, taskQueue>>

conflictVars == <<conflictResolutionStrategy, conflicts>>

apiVars == <<phaseRequests, taskRequests, overloadSignals, lookups>>

agentVars == <<baseAgent, execs, drains, agentEvents, inbox, handled, shutdownPc>>

vars == <<queueVars, storeVars, busVars, orchVars, conflictVars, apiVars, agentVars>>

(***************************************************************************)
(* TaskDispatcherService                                                   *)
(***************************************************************************)
\* queueConfig
concurrency == 3
maxRetries == 3

\* priorityWeights[p].weight
priorityWeights(p) ==
  CASE p = "CRITICAL" -> 1000
    [] p = "HIGH" -> 100
    [] p = "MEDIUM" -> 10
    [] p = "LOW" -> 1

\* Roles tasks are addressed to in the model (a subset keeps TLC's run small).
TaskRoles == {"qa_engineer", "tech_lead"}

Task == [assignedTo : TaskRoles, priority : Priority]

JobsOf(agent, st) ==
  {i \in 1..Len(jobs) : jobs[i].name = agent /\ jobs[i].state = st}

\* A job as queue.add(name, data, opts) creates it: waiting, no attempt made.
NewJob(task, backoff, removeOnComplete) ==
  [name |-> task.assignedTo,
   data |-> task,
   priority |-> priorityWeights(task.priority),
   attempts |-> maxRetries,
   backoff |-> backoff,
   removeOnComplete |-> removeOnComplete,
   attemptsMade |-> 0,
   state |-> "waiting"]

\* getOrCreateQueue(agent): the queues after it; a name without a queue
\* gets one (createQueueForAgent runs to its end before it returns).
getOrCreateQueue(agent) == taskQueues \cup {agent}

\* eventEmitter.emit(event, {taskId, ...}) of the dispatcher.
Emit(event, taskId) ==
  taskEvents' = taskEvents \cup {[event |-> event, taskId |-> taskId]}

\* dispatchTask(task): one job with priority weight, attempts and
\* exponential backoff; returns the job id.
dispatchTask(task) ==
  /\ taskQueues' = getOrCreateQueue(task.assignedTo)
  /\ jobs' = Append(jobs, NewJob(task, TRUE, FALSE))
  /\ waitOrder' = Append(waitOrder, Len(jobs) + 1)
  /\ Emit("task:dispatched", Len(jobs) + 1)
  /\ UNCHANGED retriedCount

\* groupTasksByAgent: agents in order of first appearance, each with its
\* tasks in submission order; flattened to the order addBulk adds them.
RECURSIVE AgentsInOrder(_)
AgentsInOrder(tasks) ==
  IF tasks = <<>> THEN <<>>
  ELSE LET rest == AgentsInOrder(SubSeq(tasks, 1, Len(tasks) - 1))
           a == tasks[Len(tasks)].assignedTo
       IN IF a \in RangeOf(rest) THEN rest ELSE Append(rest, a)

RECURSIVE Flatten(_)
Flatten(ss) == IF ss = <<>> THEN <<>> ELSE Head(ss) \o Flatten(Tail(ss))

groupTasksByAgent(tasks) ==
  LET ags == AgentsInOrder(tasks)
  IN Flatten([k \in 1..Len(ags) |->
               SelectSeq(tasks, LAMBDA t : t.assignedTo = ags[k])])

\* bulkDispatch(tasks): the jobs carry priority and attempts but no backoff,
\* and fall under defaultJobOptions.removeOnComplete = true.
bulkDispatch(tasks) ==
  LET ordered == groupTasksByAgent(tasks)
  IN /\ taskQueues' = taskQueues \cup {tasks[i].assignedTo : i \in 1..Len(tasks)}
     /\ jobs' = jobs \o [k \in 1..Len(ordered) |-> NewJob(ordered[k], FALSE, TRUE)]
     /\ waitOrder' = waitOrder \o [k \in 1..Len(ordered) |-> Len(jobs) + k]
     /\ UNCHANGED <<retriedCount, taskEvents>>

\* BullMQ's choice of the next waiting job of a queue: the smallest
\* priority number first ("lower number = higher priority"), and within a
\* priority the job that entered the prioritized set first.
WaitPos(i) == CHOOSE n \in 1..Len(waitOrder) : waitOrder[n] = i

NextJob(agent) ==
  CHOOSE i \in JobsOf(agent, "waiting") :
    \A k \in JobsOf(agent, "waiting") :
      \/ jobs[i].priority < jobs[k].priority
      \/ jobs[i].priority = jobs[k].priority /\ WaitPos(i) <= WaitPos(k)

\* The Worker of `agent` takes the next job while it has a free slot; its
\* processor emits task:processing.
WorkerStart(agent) ==
  /\ agent \in taskQueues
  /\ JobsOf(agent, "waiting") # {}
  /\ Cardinality(JobsOf(agent, "active")) < concurrency
  /\ LET i == NextJob(agent)
     IN /\ jobs' = [jobs EXCEPT ![i].state = "active"]
        /\ waitOrder' = SelectSeq(waitOrder, LAMBDA k : k # i)
        /\ Emit("task:processing", i)
  /\ UNCHANGED <<taskQueues, retriedCount>>

\* The processor returns: the job completes (and is removed at once when
\* removeOnComplete is true); the 'completed' handler of the QueueEvents
\* emits task:completed.
JobCompleted(i) ==
  /\ i \in 1..Len(jobs)
  /\ jobs[i].state = "active"
  /\ jobs' = [jobs EXCEPT ![i].state =
                IF jobs[i].removeOnComplete THEN "removed" ELSE "completed"]
  /\ Emit("task:completed", i)
  /\ UNCHANGED <<taskQueues, waitOrder, retriedCount>>

\* Mutant of StateAfterFailure: the attempts limit is ignored.
StateAfterFailure_NoLimit(job) ==
  IF job.backoff THEN "delayed" ELSE "waiting"

\* What BullMQ does with a job whose attempt failed: retry it while
\* attemptsMade < opts.attempts (delayed when a backoff is set), else fail it.
StateAfterFailure(job) ==
  IF job.attemptsMade + 1 < job.attempts
  THEN (IF job.backoff THEN "delayed" ELSE "waiting")
  ELSE "failed"

\* Failed executions so far, over all jobs.
RECURSIVE SumAttempts(_)
SumAttempts(n) == IF n = 0 THEN 0 ELSE jobs[n].attemptsMade + SumAttempts(n - 1)

Failures == SumAttempts(Len(jobs))

\* The processor throws (a 'task:processing' listener throws) or the job
\* stalls out; the 'failed' handler of the QueueEvents emits task:failed
\* when the job moves to the failed set.
JobFailed(i) ==
  /\ i \in 1..Len(jobs)
  /\ jobs[i].state = "active"
  /\ jobs' = [jobs EXCEPT ![i].attemptsMade = @ + 1,
                          ![i].state = StateAfterFailure(jobs[i])]
  /\ waitOrder' = IF StateAfterFailure(jobs[i]) = "waiting"
                  THEN Append(waitOrder, i) ELSE waitOrder
  /\ IF StateAfterFailure(jobs[i]) = "failed"
     THEN Emit("task:failed", i)
     ELSE UNCHANGED taskEvents
  /\ UNCHANGED <<taskQueues, retriedCount>>

\* The backoff delay of a delayed job elapses: it waits again.
DelayElapsed(i) ==
  /\ i \in 1..Len(jobs)
  /\ jobs[i].state = "delayed"
  /\ jobs' = [jobs EXCEPT ![i].state = "waiting"]
  /\ waitOrder' = Append(waitOrder, i)
  /\ UNCHANGED <<taskQueues, retriedCount, taskEvents>>

\* A set of job ids as the list getFailed() returns (by job id here; the
\* order among jobs retried by one call does not affect their priorities).
RECURSIVE SetToSeq(_)
SetToSeq(S) ==
  IF S = {} THEN <<>>
  ELSE LET m == CHOOSE x \in S : \A y \in S : x <= y
       IN <<m>> \o SetToSeq(S \ {m})

\* retryFailedTasks(agent): job.retry() on every failed job of the queue;
\* returns how many.
retryFailedTasks(agent) ==
  LET failedJobs == IF agent \in taskQueues THEN JobsOf(agent, "failed") ELSE {}
  IN /\ jobs' = [i \in 1..Len(jobs) |->
                  IF i \in failedJobs
                  THEN [jobs[i] EXCEPT !.state = "waiting"]
                  ELSE jobs[i]]
     /\ waitOrder' = waitOrder \o SetToSeq(failedJobs)
     /\ retriedCount' = Cardinality(failedJobs)
     /\ UNCHANGED <<taskQueues, taskEvents>>

QueueInit ==
  /\ taskQueues = AgentPersona
  /\ jobs = <<>>
  /\ waitOrder = <<>>
  /\ retriedCount = -1
  /\ taskEvents = {}

QueueFrame == UNCHANGED <<agentVars, storeVars, busVars, orchVars, conflictVars, apiVars>>

\* The dispatcher with a mixed workload: every priority, two queues, single
\* and bulk dispatch, few failures.
NextQueue ==
  \/ \E t \in Task : Len(jobs) < MaxJobs /\ dispatchTask(t) /\ QueueFrame
  \/ \E ts \in SeqsUpTo(Task, 2) :
       ts # <<>> /\ Len(jobs) + Len(ts) <= MaxJobs /\ bulkDispatch(ts) /\ QueueFrame
  \/ \E a \in TaskRoles : WorkerStart(a) /\ QueueFrame
  \/ \E i \in 1..Len(jobs) : JobCompleted(i) /\ QueueFrame
  \/ \E i \in 1..Len(jobs) :
       Failures < MaxMixedFailures /\ JobFailed(i) /\ QueueFrame
  \/ \E i \in 1..Len(jobs) : DelayElapsed(i) /\ QueueFrame
  \/ \E a \in TaskRoles : retryFailedTasks(a) /\ QueueFrame


\* The dispatcher with failing jobs: one priority, two queues, enough
\* failures to exhaust the attempts of a job and fail it again after a
\* manual retry.
RetryTask == [assignedTo : TaskRoles, priority : {"HIGH"}]

NextRetry ==
  \/ \E t \in RetryTask : Len(jobs) < MaxRetryJobs /\ dispatchTask(t) /\ QueueFrame
  \/ \E ts \in SeqsUpTo(RetryTask, 2) :
       ts # <<>> /\ Len(jobs) + Len(ts) <= MaxRetryJobs /\ bulkDispatch(ts) /\ QueueFrame
  \/ \E a \in TaskRoles : WorkerStart(a) /\ QueueFrame
  \/ \E i \in 1..Len(jobs) : JobCompleted(i) /\ QueueFrame
  \/ \E i \in 1..Len(jobs) : Failures < MaxFailures /\ JobFailed(i) /\ QueueFrame
  \/ \E i \in 1..Len(jobs) : DelayElapsed(i) /\ QueueFrame
  \/ \E a \in TaskRoles : retryFailedTasks(a) /\ QueueFrame


(***************************************************************************)
(* StateManagerService.  JavaScript objects are cells of `heap`; a field   *)
(* holding an object holds its address, so that two holders of one object  *)
(* see each other's in-place writes, and a copy is a new cell.             *)
(***************************************************************************)
maxHistorySize == 100

\* Keys and values of the memory tiers and of the global context.
MemoryKeys == {"k"}
MemoryValues == {"v1", "v2"}
MemoryTypes == {"shortTerm", "longTerm"}

\* {}: a record with no key set.
EmptyRecord == [k \in MemoryKeys |-> "undefined"]

\* The order Map iteration visits keys in (insertion order of the roster;
\* any other key after them).
KeyOrder ==
  <<"tech_lead", "product_engineer", "qa_engineer",
    "devops_specialist", "doc_specialist", "code_reviewer", "intruder">>

KeySeq(D) == SelectSeq(KeyOrder, LAMBDA r : r \in D)

KeyIndex(D, r) == CHOOSE j \in 1..Len(KeySeq(D)) : KeySeq(D)[j] = r

\* The value of an AgentStateData object with everything it refers to.
AgentContent(h, a) ==
  [persona |-> h[a].persona,
   state |-> h[a].state,
   shortTerm |-> h[h[h[a].memory].shortTerm],
   longTerm |-> h[h[h[a].memory].longTerm],
   currentTasks |-> h[a].currentTasks,
   metrics |-> h[a].metrics,
   lastUpdated |-> h[a].lastUpdated]

\* The value of a SystemState object with everything it refers to.
StateContent(h, s) ==
  [id |-> h[s].id,
   phase |-> h[s].phase,
   agents |-> [r \in DOMAIN h[h[s].agents] |-> AgentContent(h, h[h[s].agents][r])],
   globalContext |-> h[h[s].globalContext]]

\* JSON.parse(JSON.stringify(agentState)): lastUpdated, a Date, is written
\* as a string and read back as one.
JSONAgent(agentState) == [agentState EXCEPT !.lastUpdated = "string"]

\* What JSON.stringify(serializeState(state)) writes and JSON.parse reads
\* back: the agents as entries, their Dates as strings.
serializeState(h, s) ==
  [StateContent(h, s) EXCEPT
     !.agents = [r \in DOMAIN @ |-> JSONAgent(@[r])]]

\* The four cells of one agent (AgentStateData, memory, shortTerm,
\* longTerm) placed at base+1 .. base+4.
AgentCells(c, base) ==
  << [persona |-> c.persona, state |-> c.state, memory |-> base + 2,
      currentTasks |-> c.currentTasks, metrics |-> c.metrics,
      lastUpdated |-> c.lastUpdated],
     [shortTerm |-> base + 3, longTerm |-> base + 4],
     c.shortTerm,
     c.longTerm >>

\* New objects holding the value `data`: the SystemState at n+1, its agents
\* Map at n+2, its globalContext at n+3, then four cells per agent.
NewStateCells(n, data) ==
  LET D == DOMAIN data.agents
      keys == KeySeq(D)
  IN << [id |-> data.id, phase |-> data.phase,
         agents |-> n + 2, globalContext |-> n + 3],
        [r \in D |-> n + 3 + 4 * (KeyIndex(D, r) - 1) + 1],
        data.globalContext >>
     \o Flatten([j \in 1..Len(keys) |->
                  AgentCells(data.agents[keys[j]], n + 3 + 4 * (j - 1))])

\* deserializeState(data): builds the state (and its Map) anew from JSON;
\* only the state's own timestamp is made a Date again.
deserializeState(h, data) ==
  [heap |-> h \o NewStateCells(Len(h), data), addr |-> Len(h) + 1]

\* Mutant of deepCloneState: `{ ...state }` alone, the agents Map and the
\* global context still shared with the original.
deepCloneState_Shallow(h, s) ==
  [heap |-> Append(h, h[s]), addr |-> Len(h) + 1]

\* deepCloneState(state): a new SystemState, a new Map, and for every agent
\* a new AgentStateData with new memory, shortTerm and longTerm records and
\* copied currentTasks and metrics; a new globalContext record.
deepCloneState(h, s) ==
  [heap |-> h \o NewStateCells(Len(h), StateContent(h, s)), addr |-> Len(h) + 1]

\* initializeSystemState(): the six roster roles, idle, with empty memory.
initializeSystemState ==
  [id |-> 0,
   phase |-> "planning",
   agents |-> [r \in AgentPersona |->
                [persona |-> r, state |-> "idle",
                 shortTerm |-> EmptyRecord, longTerm |-> EmptyRecord,
                 currentTasks |-> <<>>,
                 metrics |-> [tasksCompleted |-> 0],
                 lastUpdated |-> "Date"]],
   globalContext |-> EmptyRecord]

LiveState == heap[currentState]
LiveAgents == heap[LiveState.agents]

\* saveState: writes the serialized live state under the key `current`; a
\* rejected write is caught and logged.
Saved(h, s) ==
  IF redisUp THEN [redis EXCEPT !.current = <<serializeState(h, s)>>] ELSE redis

\* persistAgentState(persona, state) / persistGlobalContext(): redis.set of
\* the key agent:<persona> / context; the command is rejected, and nothing
\* written, while Redis cannot be reached.
persistAgentState(persona, state) ==
  IF redisUp
  THEN [redis EXCEPT !.agents = [r \in DOMAIN @ \cup {persona} |->
                                   IF r = persona THEN JSONAgent(state) ELSE @[r]]]
  ELSE redis

persistGlobalContext(context) ==
  IF redisUp THEN [redis EXCEPT !.context = <<context>>] ELSE redis

\* How a call that awaits a rejected redis.set ends: with that error, at
\* the await.
StorageError(op) ==
  CASE op = "updateAgentState" -> "updateAgentState:storageError"
    [] op = "updateAgentMemory" -> "updateAgentMemory:storageError"
    [] op = "clearShortTermMemory" -> "clearShortTermMemory:storageError"
    [] op = "updateGlobalContext" -> "updateGlobalContext:storageError"
    [] op = "createSnapshot" -> "createSnapshot:storageError"
    [] op = "setPhase" -> "setPhase:storageError"
    [] op = "restoreSnapshot" -> "restoreSnapshot:storageError"

Persisted(op) == IF redisUp THEN op ELSE StorageError(op)

\* The event a call emits on the way to its outcome: the emit is the last
\* statement of the call, after the await of the durable write.
StateEvent(outcome) ==
  CASE outcome = "updateAgentState" -> "state:agent:updated"
    [] outcome = "updateGlobalContext" -> "state:context:updated"
    [] outcome = "setPhase" -> "state:phase:changed"
    [] outcome = "restoreSnapshot" -> "state:restored"
    [] OTHER -> "none"

Called(op) == /\ storeOps' = storeOps + 1
              /\ lastOp' = op

\* Mutant of updateAgentState: no check that the persona has an entry, so an
\* unknown persona gets one ({ ...undefined, ...updates }).
updateAgentState_NoGuard(persona, updates) ==
  /\ lifecycle = "running"
  /\ LET current == IF persona \in DOMAIN LiveAgents
                    THEN AgentContent(heap, LiveAgents[persona])
                    ELSE [persona |-> persona, state |-> "idle",
                          shortTerm |-> EmptyRecord, longTerm |-> EmptyRecord,
                          currentTasks |-> <<>>, metrics |-> [tasksCompleted |-> 0],
                          lastUpdated |-> "Date"]
         entries == [r \in DOMAIN LiveAgents \cup {persona} |->
                      IF r = persona THEN Len(heap) + 1 ELSE LiveAgents[r]]
     IN heap' = [heap \o AgentCells([current EXCEPT !.state = updates.state,
                                                     !.lastUpdated = "Date"], Len(heap))
                   EXCEPT ![LiveState.agents] = entries]
  /\ Called("updateAgentState")
  /\ UNCHANGED <<currentState, stateHistory, redis, retrieved, lifecycle,
                 nextSnapshotId>>

\* updateAgentState(persona, updates): throws for an unknown persona; else
\* a new object { ...current, ...updates } replaces the Map entry.
updateAgentState(persona, updates) ==
  /\ lifecycle = "running"
  /\ IF persona \notin DOMAIN LiveAgents
     THEN /\ Called("updateAgentState:notFound")
          /\ UNCHANGED <<heap, currentState, stateHistory, redis, retrieved,
                         lifecycle, nextSnapshotId>>
     ELSE /\ heap' = [Append(heap, [heap[LiveAgents[persona]] EXCEPT
                                          !.state = updates.state,
                                          !.lastUpdated = "Date"])
                        EXCEPT ![LiveState.agents][persona] = Len(heap) + 1]
          /\ redis' = persistAgentState(persona, AgentContent(heap', Len(heap) + 1))
          /\ Called(Persisted("updateAgentState"))
          /\ UNCHANGED <<currentState, stateHistory, retrieved,
                         lifecycle, nextSnapshotId>>

\* updateGlobalContext(key, value): writes the key in place.
updateGlobalContext(key, value) ==
  /\ lifecycle = "running"
  /\ heap' = [heap EXCEPT ![LiveState.globalContext][key] = value]
  /\ redis' = persistGlobalContext(heap'[LiveState.globalContext])
  /\ Called(Persisted("updateGlobalContext"))
  /\ UNCHANGED <<currentState, stateHistory, retrieved, lifecycle,
                 nextSnapshotId>>

\* The heap, history and durable keys after createSnapshot(reason) on heap h.
SnapshotTaken(h, reason) ==
  LET c == deepCloneState(h, currentState)
      snapshot == [id |-> nextSnapshotId, systemState |-> c.addr, reason |-> reason]
      pushed == Append(stateHistory, snapshot)
  IN /\ heap' = c.heap
     /\ stateHistory' = IF Len(pushed) > maxHistorySize THEN Tail(pushed) ELSE pushed
     /\ redis' = IF redisUp
                 THEN [redis EXCEPT !.snapshots =
                         [i \in DOMAIN @ \cup {snapshot.id} |->
                            IF i = snapshot.id
                            THEN [id |-> snapshot.id, reason |-> reason,
                                  systemState |-> serializeState(c.heap, c.addr)]
                            ELSE @[i]]]
                 ELSE redis
     /\ nextSnapshotId' = nextSnapshotId + 1

\* createSnapshot(reason)
createSnapshot(reason) ==
  /\ lifecycle = "running"
  /\ SnapshotTaken(heap, reason)
  /\ Called(Persisted("createSnapshot"))
  /\ UNCHANGED <<currentState, retrieved, lifecycle>>

\* setPhase(phase): writes the phase in place, then snapshots.
setPhase(phase) ==
  /\ lifecycle = "running"
  /\ SnapshotTaken([heap EXCEPT ![currentState].phase = phase],
                   <<"phase_transition", LiveState.phase, phase>>)
  /\ Called(Persisted("setPhase"))
  /\ UNCHANGED <<currentState, retrieved, lifecycle>>

\* restoreSnapshot(snapshotId): loads the snapshot from the durable store
\* (throws when it is not there), makes a deep copy of it the live state
\* and saves it.
restoreSnapshot(snapshotId) ==
  /\ lifecycle = "running"
  /\ IF ~redisUp
     THEN /\ Called(StorageError("restoreSnapshot"))
          /\ UNCHANGED <<heap, currentState, stateHistory, redis, retrieved,
                         lifecycle, nextSnapshotId>>
     ELSE IF snapshotId \notin DOMAIN redis.snapshots
     THEN /\ Called("restoreSnapshot:notFound")
          /\ UNCHANGED <<heap, currentState, stateHistory, redis, retrieved,
                         lifecycle, nextSnapshotId>>
     ELSE LET loaded == deserializeState(heap, redis.snapshots[snapshotId].systemState)
              c == deepCloneState(loaded.heap, loaded.addr)
          IN /\ heap' = c.heap
             /\ currentState' = c.addr
             /\ redis' = [redis EXCEPT !.current = <<serializeState(c.heap, c.addr)>>]
             /\ Called("restoreSnapshot")
             /\ UNCHANGED <<stateHistory, retrieved, lifecycle, nextSnapshotId>>

\* stateHistory.slice(-limit): the last `limit` snapshots; -0 is 0, and
\* slice(0) is the whole list.
Slice(limit) ==
  IF limit = 0 THEN stateHistory
  ELSE SubSeq(stateHistory,
              IF Len(stateHistory) > limit THEN Len(stateHistory) - limit + 1 ELSE 1,
              Len(stateHistory))

\* getStateHistory(limit): a new list of the same snapshot objects.
getStateHistory(limit) ==
  /\ lifecycle = "running"
  /\ retrieved' = Slice(limit)
  /\ Called("getStateHistory")
  /\ UNCHANGED <<heap, currentState, stateHistory, redis, lifecycle,
                 nextSnapshotId>>

\* updateAgentMemory(persona, memoryType, key, value): throws for an unknown
\* persona; else writes the key of that tier, and lastUpdated, in place.
updateAgentMemory(persona, memoryType, key, value) ==
  /\ lifecycle = "running"
  /\ IF persona \notin DOMAIN LiveAgents
     THEN /\ Called("updateAgentMemory:notFound")
          /\ UNCHANGED heap
          /\ UNCHANGED redis
     ELSE /\ heap' = [heap EXCEPT
                        ![heap[heap[LiveAgents[persona]].memory][memoryType]][key] = value,
                        ![LiveAgents[persona]].lastUpdated = "Date"]
          /\ redis' = persistAgentState(persona, AgentContent(heap', LiveAgents[persona]))
          /\ Called(Persisted("updateAgentMemory"))
  /\ UNCHANGED <<currentState, stateHistory, retrieved, lifecycle,
                 nextSnapshotId>>

\* clearShortTermMemory(persona): memory.shortTerm = {} on the live object;
\* nothing for an unknown persona.
clearShortTermMemory(persona) ==
  /\ lifecycle = "running"
  /\ IF persona \notin DOMAIN LiveAgents
     THEN /\ Called("clearShortTermMemory:none")
          /\ UNCHANGED heap
          /\ UNCHANGED redis
     ELSE /\ heap' = [Append(heap, EmptyRecord) EXCEPT
                        ![heap[LiveAgents[persona]].memory].shortTerm = Len(heap) + 1,
                        ![LiveAgents[persona]].lastUpdated = "Date"]
          /\ redis' = persistAgentState(persona, AgentContent(heap', LiveAgents[persona]))
          /\ Called(Persisted("clearShortTermMemory"))
  /\ UNCHANGED <<currentState, stateHistory, retrieved, lifecycle,
                 nextSnapshotId>>

\* getSystemState(): `{ ...this.currentState }`, a new object with the
\* fields of the live one, the agents Map and the globalContext among them.
getSystemState ==
  /\ lifecycle = "running"
  /\ heap' = Append(heap, LiveState)
  /\ returned' = [kind |-> "SystemState", addr |-> Len(heap) + 1]
  /\ Called("getSystemState")
  /\ UNCHANGED <<currentState, stateHistory, redis, retrieved, lifecycle,
                 nextSnapshotId, redisUp>>

\* getAgentState(persona): the entry of the agents Map, or null.
getAgentState(persona) ==
  /\ lifecycle = "running"
  /\ returned' = IF persona \in DOMAIN LiveAgents
                 THEN [kind |-> "AgentStateData", addr |-> LiveAgents[persona]]
                 ELSE [kind |-> "null", addr |-> 0]
  /\ Called("getAgentState")
  /\ UNCHANGED <<heap, currentState, stateHistory, redis, retrieved, lifecycle,
                 nextSnapshotId, redisUp>>

\* getAgentMemory(persona, memoryType): `{ ...agentState.memory[memoryType] }`,
\* or {} for an unknown persona.
getAgentMemory(persona, memoryType) ==
  /\ lifecycle = "running"
  /\ heap' = Append(heap,
                IF persona \in DOMAIN LiveAgents
                THEN heap[heap[heap[LiveAgents[persona]].memory][memoryType]]
                ELSE EmptyRecord)
  /\ returned' = [kind |-> "Record", addr |-> Len(heap) + 1]
  /\ Called("getAgentMemory")
  /\ UNCHANGED <<currentState, stateHistory, redis, retrieved, lifecycle,
                 nextSnapshotId, redisUp>>

\* The caller of a read writes to what it was handed; the Store is not
\* called.
CallerWrote(h) ==
  /\ lifecycle = "running"
  /\ heap' = h
  /\ Called("caller")
  /\ UNCHANGED <<currentState, stateHistory, redis, retrieved, lifecycle,
                 nextSnapshotId, clientVars>>

\* On the value of getSystemState: state.globalContext[key] = value,
\* state.phase = phase, state.agents.delete(persona).
CallerSetsContext(key, value) ==
  /\ returned.kind = "SystemState"
  /\ CallerWrote([heap EXCEPT ![heap[returned.addr].globalContext][key] = value])

CallerSetsPhase(phase) ==
  /\ returned.kind = "SystemState"
  /\ CallerWrote([heap EXCEPT ![returned.addr].phase = phase])

CallerDeletesAgent(persona) ==
  /\ returned.kind = "SystemState"
  /\ CallerWrote([heap EXCEPT ![heap[returned.addr].agents] =
                                 [r \in DOMAIN @ \ {persona} |-> @[r]]])

\* On the value of getAgentState: agentState.state = state.
CallerSetsAgentState(state) ==
  /\ returned.kind = "AgentStateData"
  /\ CallerWrote([heap EXCEPT ![returned.addr].state = state])

\* On the value of getAgentMemory: memory[key] = value.
CallerSetsMemory(key, value) ==
  /\ returned.kind = "Record"
  /\ CallerWrote([heap EXCEPT ![returned.addr][key] = value])

\* On the list of getStateHistory: history[i].systemState.phase = phase.
CallerSetsSnapshotPhase(i, phase) ==
  /\ i \in 1..Len(retrieved)
  /\ CallerWrote([heap EXCEPT ![retrieved[i].systemState].phase = phase])

\* The auto-save timer fires: saveState('auto_save').
AutoSave ==
  /\ lifecycle = "running"
  /\ redis' = Saved(heap, currentState)
  /\ Called("autoSave")
  /\ UNCHANGED <<heap, currentState, stateHistory, retrieved, lifecycle,
                 nextSnapshotId>>

\* loadState(): the saved state, deserialized, becomes the live state; with
\* nothing saved, or an error caught, the initial state stays.
loadState ==
  IF ~redisUp
  THEN /\ lastOp' = "loadState:error"
       /\ UNCHANGED <<heap, currentState>>
  ELSE IF redis.current = <<>>
  THEN /\ lastOp' = "loadState:none"
       /\ UNCHANGED <<heap, currentState>>
  ELSE LET loaded == deserializeState(heap, redis.current[1])
       IN /\ heap' = loaded.heap
          /\ currentState' = loaded.addr
          /\ lastOp' = "loadState:saved"

\* onModuleInit(): loadState, then the auto-save timer is started.
onModuleInit ==
  /\ lifecycle = "constructed"
  /\ loadState
  /\ lifecycle' = "running"
  /\ storeOps' = storeOps + 1
  /\ UNCHANGED <<stateHistory, redis, retrieved, nextSnapshotId>>

\* onModuleDestroy(): the timer is cleared and the state saved.
onModuleDestroy ==
  /\ lifecycle = "running"
  /\ redis' = Saved(heap, currentState)
  /\ lifecycle' = "stopped"
  /\ Called("onModuleDestroy")
  /\ UNCHANGED <<heap, currentState, stateHistory, retrieved, nextSnapshotId>>

\* The constructor: currentState = initializeSystemState(), no history.
Constructed ==
  /\ heap = NewStateCells(0, initializeSystemState)
  /\ currentState = 1
  /\ stateHistory = <<>>
  /\ retrieved = <<>>
  /\ lifecycle = "constructed"

\* A new process is started on the same durable store.
Restart ==
  /\ lifecycle = "stopped"
  /\ heap' = NewStateCells(0, initializeSystemState)
  /\ currentState' = 1
  /\ stateHistory' = <<>>
  /\ retrieved' = <<>>
  /\ lifecycle' = "constructed"
  /\ Called("constructor")
  /\ UNCHANGED <<redis, nextSnapshotId>>

\* The process ends without onModuleDestroy (killed, crashed) and a new one
\* is started on the same durable store.
Crash ==
  /\ lifecycle = "running"
  /\ heap' = NewStateCells(0, initializeSystemState)
  /\ currentState' = 1
  /\ stateHistory' = <<>>
  /\ retrieved' = <<>>
  /\ lifecycle' = "constructed"
  /\ Called("crash")
  /\ UNCHANGED <<redis, nextSnapshotId, clientVars>>

\* persistSnapshot sets the key of a snapshot to expire after 24 hours:
\* Redis deletes it.
SnapshotExpires(snapshotId) ==
  /\ snapshotId \in DOMAIN redis.snapshots
  /\ redis' = [redis EXCEPT !.snapshots = [i \in DOMAIN @ \ {snapshotId} |-> @[i]]]
  /\ Called("expire")
  /\ UNCHANGED <<heap, currentState, stateHistory, retrieved, lifecycle,
                 nextSnapshotId, clientVars>>

\* Redis becomes unreachable: every command of the connection is rejected
\* from now on; and reachable again.
RedisFails ==
  /\ redisUp
  /\ redisUp' = FALSE
  /\ UNCHANGED <<heap, currentState, stateHistory, redis, retrieved, lifecycle,
                 nextSnapshotId, storeOps, lastOp, returned>>

RedisRecovers ==
  /\ ~redisUp
  /\ redisUp' = TRUE
  /\ UNCHANGED <<heap, currentState, stateHistory, redis, retrieved, lifecycle,
                 nextSnapshotId, storeOps, lastOp, returned>>

StoreInit ==
  /\ Constructed
  /\ redis = [current |-> <<>>, snapshots |-> <<>>, agents |-> <<>>, context |-> <<>>]
  /\ nextSnapshotId = 1
  /\ storeOps = 0
  /\ lastOp = "constructor"
  /\ returned = [kind |-> "none", addr |-> 0]
  /\ redisUp = TRUE

\* Inputs of the model: a roster role and a name outside the roster, two
\* phases, every snapshot id issued and one never issued.
PersonaInputs == {"qa_engineer", "intruder"}
PhaseInputs == {"scaffold", "deploy"}

StoreFrame ==
  /\ storeOps < MaxStoreOps
  /\ UNCHANGED <<agentVars, queueVars, busVars, orchVars, conflictVars, apiVars, clientVars>>

NextStore ==
  \/ \E r \in PersonaInputs :
       StoreFrame /\ updateAgentState(r, [state |-> "working"])
  \/ \E k \in MemoryKeys, v \in MemoryValues :
       StoreFrame /\ updateGlobalContext(k, v)
  \/ \E ph \in PhaseInputs : StoreFrame /\ setPhase(ph)
  \/ StoreFrame /\ createSnapshot(<<"manual">>)
  \/ \E id \in 1..nextSnapshotId : StoreFrame /\ restoreSnapshot(id)
  \/ \E limit \in 1..2 : StoreFrame /\ getStateHistory(limit)
  \/ \E r \in PersonaInputs, mt \in MemoryTypes, k \in MemoryKeys, v \in MemoryValues :
       StoreFrame /\ updateAgentMemory(r, mt, k, v)
  \/ \E r \in PersonaInputs : StoreFrame /\ clearShortTermMemory(r)
  \/ StoreFrame /\ AutoSave
  \/ StoreFrame /\ onModuleInit
  \/ StoreFrame /\ onModuleDestroy
  \/ StoreFrame /\ Restart

ReadFrame ==
  /\ storeOps < MaxStoreOps
  /\ UNCHANGED <<agentVars, queueVars, busVars, orchVars, conflictVars, apiVars>>

\* The Store with processes that end without a shutdown and snapshots that
\* expire.
NextDurable ==
  \/ StoreFrame /\ onModuleInit
  \/ \E r \in PersonaInputs :
       StoreFrame /\ updateAgentState(r, [state |-> "working"])
  \/ \E k \in MemoryKeys, v \in MemoryValues :
       StoreFrame /\ updateGlobalContext(k, v)
  \/ \E ph \in PhaseInputs : StoreFrame /\ setPhase(ph)
  \/ StoreFrame /\ createSnapshot(<<"manual">>)
  \/ \E id \in 1..nextSnapshotId : StoreFrame /\ restoreSnapshot(id)
  \/ \E r \in PersonaInputs, mt \in MemoryTypes, k \in MemoryKeys, v \in MemoryValues :
       StoreFrame /\ updateAgentMemory(r, mt, k, v)
  \/ \E r \in PersonaInputs : StoreFrame /\ clearShortTermMemory(r)
  \/ StoreFrame /\ AutoSave
  \/ ReadFrame /\ Crash
  \/ \E id \in 1..nextSnapshotId : ReadFrame /\ SnapshotExpires(id)

StorageFrame ==
  UNCHANGED <<agentVars, queueVars, busVars, orchVars, conflictVars, apiVars>>

\* The Store on a Redis connection that fails and recovers.
NextStorage ==
  \/ StoreFrame /\ onModuleInit
  \/ StorageFrame /\ RedisFails
  \/ StorageFrame /\ RedisRecovers
  \/ \E r \in PersonaInputs :
       StoreFrame /\ updateAgentState(r, [state |-> "working"])
  \/ \E k \in MemoryKeys, v \in MemoryValues :
       StoreFrame /\ updateGlobalContext(k, v)
  \/ \E ph \in PhaseInputs : StoreFrame /\ setPhase(ph)
  \/ StoreFrame /\ createSnapshot(<<"manual">>)
  \/ \E r \in PersonaInputs, mt \in MemoryTypes, k \in MemoryKeys, v \in MemoryValues :
       StoreFrame /\ updateAgentMemory(r, mt, k, v)
  \/ \E r \in PersonaInputs : StoreFrame /\ clearShortTermMemory(r)
  \/ StoreFrame /\ AutoSave

\* The reads of the Store and what their callers do with the values.
NextReads ==
  \/ StoreFrame /\ onModuleInit
  \/ \E r \in PersonaInputs, mt \in MemoryTypes, k \in MemoryKeys, v \in MemoryValues :
       StoreFrame /\ updateAgentMemory(r, mt, k, v)
  \/ StoreFrame /\ createSnapshot(<<"manual">>)
  \/ ReadFrame /\ getSystemState
  \/ \E r \in PersonaInputs : ReadFrame /\ getAgentState(r)
  \/ \E r \in PersonaInputs, mt \in MemoryTypes : ReadFrame /\ getAgentMemory(r, mt)
  \/ \E limit \in 1..2 : StoreFrame /\ getStateHistory(limit)
  \/ \E k \in MemoryKeys, v \in MemoryValues : ReadFrame /\ CallerSetsContext(k, v)
  \/ \E ph \in PhaseInputs : ReadFrame /\ CallerSetsPhase(ph)
  \/ \E r \in PersonaInputs : ReadFrame /\ CallerDeletesAgent(r)
  \/ ReadFrame /\ CallerSetsAgentState("working")
  \/ \E k \in MemoryKeys, v \in MemoryValues : ReadFrame /\ CallerSetsMemory(k, v)
  \/ \E i \in 1..2, ph \in PhaseInputs : ReadFrame /\ CallerSetsSnapshotPhase(i, ph)

(***************************************************************************)
(* MessageBusService.  Channel names and patterns are strings; Text gives  *)
(* the characters of each string the model uses, so that matching works on *)
(* characters as Redis and RegExp do.                                      *)
(***************************************************************************)
busMaxHistorySize == 1000

AgentPrefix == <<"a", "g", "e", "n", "t", ":">>

Text ==
  [ s \in {"agent:*", "agent:qa_engineer", "agent:tech_lead",
           "agent:multicast", "agent:broadcast", "*"} |->
    CASE s = "agent:*" -> AgentPrefix \o <<"*">>
      [] s = "agent:qa_engineer" ->
           AgentPrefix \o <<"q", "a", "_", "e", "n", "g", "i", "n", "e", "e", "r">>
      [] s = "agent:tech_lead" ->
           AgentPrefix \o <<"t", "e", "c", "h", "_", "l", "e", "a", "d">>
      [] s = "agent:multicast" ->
           AgentPrefix \o <<"m", "u", "l", "t", "i", "c", "a", "s", "t">>
      [] s = "agent:broadcast" ->
           AgentPrefix \o <<"b", "r", "o", "a", "d", "c", "a", "s", "t">>
      [] s = "*" -> <<"*">> ]

\* Redis PSUBSCRIBE matching (glob): `*` stands for any run of characters,
\* `?` for any one character, any other character for itself.
RECURSIVE GlobMatch(_, _)
GlobMatch(pat, str) ==
  IF pat = <<>> THEN str = <<>>
  ELSE IF Head(pat) = "*"
       THEN \/ GlobMatch(Tail(pat), str)
            \/ str # <<>> /\ GlobMatch(pat, Tail(str))
       ELSE /\ str # <<>>
            /\ Head(pat) = "?" \/ Head(pat) = Head(str)
            /\ GlobMatch(Tail(pat), Tail(str))

\* new RegExp('^' + pattern with * -> [^:]* and ? -> . + '$').test(str)
RECURSIVE RegExpTest(_, _)
RegExpTest(pat, str) ==
  IF pat = <<>> THEN str = <<>>
  ELSE IF Head(pat) = "*"
       THEN \/ RegExpTest(Tail(pat), str)
            \/ str # <<>> /\ Head(str) # ":" /\ RegExpTest(pat, Tail(str))
       ELSE /\ str # <<>>
            /\ Head(pat) = "?" \/ Head(pat) = Head(str)
            /\ RegExpTest(Tail(pat), Tail(str))

\* matchPattern(channel, pattern)
matchPattern(channel, pattern) == RegExpTest(Text[pattern], Text[channel])

\* getChannelName(message): one channel for an array of recipients, else
\* the recipient's own.
getChannelName(message) ==
  IF message.toAgent = "array" THEN "agent:multicast"
  ELSE IF message.toAgent = "qa_engineer" THEN "agent:qa_engineer"
  ELSE "agent:tech_lead"

\* JSON.parse(JSON.stringify(message)): the Date of the timestamp comes back
\* as a string.
JSONRoundTrip(message) == [message EXCEPT !.timestamp = "string"]

\* The 'pmessage' events Redis sends the subscriber connection for one
\* PUBLISH: one per psubscribed pattern that matches the channel.
PMessagesFor(patterns, channel, message) ==
  LET matching == SelectSeq(patterns, LAMBDA p : GlobMatch(Text[p], Text[channel]))
  IN [j \in 1..Len(matching) |->
        [pattern |-> matching[j], channel |-> channel,
         message |-> JSONRoundTrip(message)]]

\* PSUBSCRIBE / PUNSUBSCRIBE on the subscriber connection: Redis keeps each
\* pattern once per connection, however often it is subscribed.
PSubscribed(patterns, p) ==
  IF p \in RangeOf(patterns) THEN patterns ELSE Append(patterns, p)

PUnsubscribed(patterns, p) == SelectSeq(patterns, LAMBDA q : q # p)

RECURSIVE PSubscribedAll(_, _)
PSubscribedAll(patterns, ps) ==
  IF ps = <<>> THEN patterns
  ELSE PSubscribedAll(PSubscribed(patterns, Head(ps)), Tail(ps))

RECURSIVE PUnsubscribedAll(_, _)
PUnsubscribedAll(patterns, ps) ==
  IF ps = <<>> THEN patterns
  ELSE PUnsubscribedAll(PUnsubscribed(patterns, Head(ps)), Tail(ps))

\* setupRedisSubscriptions(): installs the 'pmessage' listener and
\* psubscribes the bus to agent:*.
setupRedisSubscriptions ==
  /\ ~listening
  /\ listening' = TRUE
  /\ redisPatterns' = PSubscribed(redisPatterns, "agent:*")
  /\ UNCHANGED <<redisChannels, subscriptions, messageHandlers, nextBusId,
                 published, messageHistory, pmessages, callbackCalls,
                 handlerCalls, requests, replies>>

\* subscribe(agentId, patterns, callback): records the subscription and
\* psubscribes every pattern; `throws` says whether the callback throws.
subscribe(agentId, patterns, throws) ==
  /\ subscriptions' = [i \in DOMAIN subscriptions \cup {nextBusId} |->
                         IF i = nextBusId
                         THEN [agentId |-> agentId, patterns |-> patterns,
                               throws |-> throws]
                         ELSE subscriptions[i]]
  /\ callbackCalls' = [i \in DOMAIN callbackCalls \cup {nextBusId} |->
                         IF i = nextBusId THEN <<>> ELSE callbackCalls[i]]
  /\ redisPatterns' = PSubscribedAll(redisPatterns, patterns)
  /\ nextBusId' = nextBusId + 1
  /\ UNCHANGED <<listening, redisChannels, messageHandlers, published,
                 messageHistory, pmessages, handlerCalls, requests, replies>>

\* unsubscribe(subscriptionId): punsubscribes every pattern of the
\* subscription and deletes it; nothing for an unknown id.
unsubscribe(subscriptionId) ==
  /\ IF subscriptionId \in DOMAIN subscriptions
     THEN /\ redisPatterns' =
               PUnsubscribedAll(redisPatterns, subscriptions[subscriptionId].patterns)
          /\ subscriptions' = [i \in DOMAIN subscriptions \ {subscriptionId} |->
                                 subscriptions[i]]
     ELSE UNCHANGED <<redisPatterns, subscriptions>>
  /\ UNCHANGED <<listening, redisChannels, messageHandlers, nextBusId,
                 published, messageHistory, pmessages, callbackCalls,
                 handlerCalls, requests, replies>>

\* registerHandler(pattern, handler): `throws` says whether the handler
\* rejects when called.
registerHandler(pattern, throws) ==
  /\ messageHandlers' = [i \in DOMAIN messageHandlers \cup {nextBusId} |->
                           IF i = nextBusId
                           THEN [id |-> nextBusId, pattern |-> pattern, throws |-> throws]
                           ELSE messageHandlers[i]]
  /\ handlerCalls' = [i \in DOMAIN handlerCalls \cup {nextBusId} |->
                        IF i = nextBusId THEN <<>> ELSE handlerCalls[i]]
  /\ nextBusId' = nextBusId + 1
  /\ UNCHANGED <<listening, redisPatterns, redisChannels, subscriptions,
                 published, messageHistory, pmessages, callbackCalls, requests,
                 replies>>

\* unregisterHandler(handlerId)
unregisterHandler(handlerId) ==
  /\ messageHandlers' = [i \in DOMAIN messageHandlers \ {handlerId} |->
                           messageHandlers[i]]
  /\ UNCHANGED <<listening, redisPatterns, redisChannels, subscriptions,
                 nextBusId, published, messageHistory, pmessages, callbackCalls,
                 handlerCalls, requests, replies>>

\* addToHistory(message)
\* Mutant of addToHistory: a full history drops the message that comes in.
addToHistory_DropsNewest(history, id) ==
  IF Len(history) >= busMaxHistorySize THEN history ELSE Append(history, id)

\* addToHistory(message): push, then shift when over maxHistorySize.
addToHistory(history, id) ==
  LET pushed == Append(history, id)
  IN IF Len(pushed) > busMaxHistorySize THEN Tail(pushed) ELSE pushed

\* publisher.publish(channel, JSON.stringify(message)) and addToHistory.
Published(message, channel) ==
  /\ published' = Append(published, [message |-> message, channel |-> channel])
  /\ pmessages' = pmessages \o PMessagesFor(redisPatterns, channel, message)
  /\ messageHistory' = addToHistory(messageHistory, message.id)

\* An AgentMessage with a new id.
NewMessage(toAgent, messageType) ==
  [id |-> Len(published) + 1, fromAgent |-> "tech_lead", toAgent |-> toAgent,
   messageType |-> messageType, timestamp |-> "Date"]

\* publish(message)
publish(message) ==
  /\ Published(message, getChannelName(message))
  /\ UNCHANGED <<listening, redisPatterns, redisChannels, subscriptions,
                 messageHandlers, nextBusId, callbackCalls, handlerCalls,
                 requests, replies>>

\* broadcast(message): toAgent 'all', on agent:broadcast.
broadcast(message) ==
  /\ Published([message EXCEPT !.toAgent = "all"], "agent:broadcast")
  /\ UNCHANGED <<listening, redisPatterns, redisChannels, subscriptions,
                 messageHandlers, nextBusId, callbackCalls, handlerCalls,
                 requests, replies>>

\* The subscriptions whose callback handleIncomingMessage calls for a
\* 'pmessage' of `pattern`: in Map order, those with a pattern that
\* matchPattern accepts, up to the first whose callback throws (the
\* exception leaves the loop).
RECURSIVE CalledBack(_, _)
CalledBack(ids, pattern) ==
  IF ids = <<>> THEN {}
  ELSE LET sub == subscriptions[Head(ids)]
       IN IF \E j \in 1..Len(sub.patterns) : matchPattern(pattern, sub.patterns[j])
          THEN IF sub.throws THEN {Head(ids)}
               ELSE {Head(ids)} \cup CalledBack(Tail(ids), pattern)
          ELSE CalledBack(Tail(ids), pattern)

\* handleIncomingMessage(message, pattern): every handler whose pattern
\* accepts `pattern` is awaited, its rejection caught; then the callbacks.
handleIncomingMessage(message, pattern) ==
  /\ handlerCalls' =
       [i \in DOMAIN handlerCalls |->
          IF i \in DOMAIN messageHandlers
             /\ matchPattern(pattern, messageHandlers[i].pattern)
          THEN Append(handlerCalls[i], message)
          ELSE handlerCalls[i]]
  /\ callbackCalls' =
       [i \in DOMAIN callbackCalls |->
          IF i \in CalledBack(SetToSeq(DOMAIN subscriptions), pattern)
          THEN Append(callbackCalls[i], message)
          ELSE callbackCalls[i]]

\* A 'pmessage' event reaches the subscriber connection: the listener, if
\* installed, parses it and runs handleIncomingMessage.
OnPMessage ==
  /\ pmessages # <<>>
  /\ pmessages' = Tail(pmessages)
  /\ IF listening
     THEN handleIncomingMessage(Head(pmessages).message, Head(pmessages).pattern)
     ELSE UNCHANGED <<handlerCalls, callbackCalls>>
  /\ UNCHANGED <<listening, redisPatterns, redisChannels, subscriptions,
                 messageHandlers, nextBusId, published, messageHistory,
                 requests, replies>>

\* Mutant of requestResponse: the subscribe callback clears the timer
\* whether or not it got an error.
requestResponse_TimerCleared(toAgent) ==
  LET queryMessage == NewMessage(toAgent, "QUERY")
  IN /\ requests' = Append(requests, [id |-> queryMessage.id, state |-> "pending",
                                      error |-> "none", timer |-> "cleared",
                                      listener |-> TRUE, replied |-> FALSE])
     /\ redisChannels' = redisChannels \cup {Len(requests) + 1}
     /\ Published(queryMessage, getChannelName(queryMessage))
     /\ UNCHANGED <<listening, redisPatterns, subscriptions, messageHandlers,
                    nextBusId, callbackCalls, handlerCalls, replies>>

\* requestResponse(fromAgent, toAgent, query, timeout): arms the timer,
\* subscribes the reply channel response:<requestId>, adds a 'message'
\* listener for it and publishes the query; the promise is pending.
\* `listener` says whether that listener is on the subscriber connection:
\* nothing in the service takes a 'message' listener off.
requestResponse(toAgent) ==
  LET queryMessage == NewMessage(toAgent, "QUERY")
  IN /\ requests' = Append(requests, [id |-> queryMessage.id, state |-> "pending",
                                      error |-> "none", timer |-> "armed",
                                      listener |-> TRUE, replied |-> FALSE])
     /\ redisChannels' = redisChannels \cup {Len(requests) + 1}
     /\ Published(queryMessage, getChannelName(queryMessage))
     /\ UNCHANGED <<listening, redisPatterns, subscriptions, messageHandlers,
                    nextBusId, callbackCalls, handlerCalls, replies>>

\* The query of request r has been handed to a callback or a handler.
QueryReceived(r) ==
  \/ \E i \in DOMAIN callbackCalls : \E k \in 1..Len(callbackCalls[i]) :
       callbackCalls[i][k].id = requests[r].id
  \/ \E i \in DOMAIN handlerCalls : \E k \in 1..Len(handlerCalls[i]) :
       handlerCalls[i][k].id = requests[r].id

\* A recipient of the query publishes its answer on the reply channel of
\* request r; Redis forwards it while the channel is subscribed.
ReplyPublished(r) ==
  /\ QueryReceived(r)
  /\ ~requests[r].replied
  /\ requests' = [requests EXCEPT ![r].replied = TRUE]
  /\ replies' = IF r \in redisChannels THEN Append(replies, r) ELSE replies
  /\ UNCHANGED <<listening, redisPatterns, redisChannels, subscriptions,
                 messageHandlers, nextBusId, published, messageHistory,
                 pmessages, callbackCalls, handlerCalls>>

\* The 'message' listener of the request whose reply arrives: clearTimeout,
\* unsubscribe, resolve (a settled promise stays as it is).
OnMessage ==
  /\ replies # <<>>
  /\ LET r == Head(replies)
     IN /\ requests' = [requests EXCEPT
                          ![r].timer = IF @ = "armed" THEN "cleared" ELSE @,
                          ![r].state = IF @ = "pending" THEN "resolved" ELSE @]
        /\ redisChannels' = redisChannels \ {r}
  /\ replies' = Tail(replies)
  /\ UNCHANGED <<listening, redisPatterns, subscriptions, messageHandlers,
                 nextBusId, published, messageHistory, pmessages,
                 callbackCalls, handlerCalls>>

\* The timer of request r fires: unsubscribe, reject with
\* 'Request timeout after <timeout>ms'.
TimerFires(r) ==
  /\ r \in 1..Len(requests)
  /\ requests[r].timer = "armed"
  /\ requests' = [requests EXCEPT
                    ![r].timer = "fired",
                    ![r].error = IF requests[r].state = "pending" THEN "timeout" ELSE @,
                    ![r].state = IF @ = "pending" THEN "rejected" ELSE @]
  /\ redisChannels' = redisChannels \ {r}
  /\ UNCHANGED <<listening, redisPatterns, subscriptions, messageHandlers,
                 nextBusId, published, messageHistory, pmessages,
                 callbackCalls, handlerCalls, replies>>

\* The bus after its constructor: two connections, nothing subscribed.
BusInit ==
  /\ listening = FALSE
  /\ redisPatterns = <<>>
  /\ redisChannels = {}
  /\ subscriptions = <<>>
  /\ messageHandlers = <<>>
  /\ nextBusId = 1
  /\ published = <<>>
  /\ messageHistory = <<>>
  /\ pmessages = <<>>
  /\ callbackCalls = <<>>
  /\ handlerCalls = <<>>
  /\ requests = <<>>
  /\ replies = <<>>

\* Inputs of the model.
PatternInputs == {"agent:*", "agent:qa_engineer"}
PatternLists == {<<"agent:*">>, <<"agent:qa_engineer">>, <<"*">>,
                 <<"agent:*", "agent:qa_engineer">>}
\* "array" is the list ['qa_engineer', 'tech_lead'].
RecipientInputs == {"qa_engineer", "tech_lead", "array"}

BusFrame == UNCHANGED <<agentVars, queueVars, storeVars, orchVars, conflictVars, apiVars>>

\* Publish and subscribe.
NextBus ==
  \/ setupRedisSubscriptions /\ BusFrame
  \/ \E ps \in PatternLists, t \in BOOLEAN :
       Cardinality(DOMAIN callbackCalls) < MaxSubscriptions
       /\ subscribe("qa_engineer", ps, t) /\ BusFrame
  \/ \E id \in DOMAIN subscriptions : unsubscribe(id) /\ BusFrame
  \/ \E pat \in PatternInputs, t \in BOOLEAN :
       Cardinality(DOMAIN handlerCalls) < MaxHandlers
       /\ registerHandler(pat, t) /\ BusFrame
  \/ \E id \in DOMAIN messageHandlers : unregisterHandler(id) /\ BusFrame
  \/ \E to \in RecipientInputs :
       Len(published) < MaxMessages /\ publish(NewMessage(to, "TASK")) /\ BusFrame
  \/ Len(published) < MaxMessages /\ broadcast(NewMessage("all", "TASK")) /\ BusFrame
  \/ OnPMessage /\ BusFrame

\* Request and response, with at most one subscription for the recipient.
NextRequest ==
  \/ setupRedisSubscriptions /\ BusFrame
  \/ \E ps \in {<<"agent:*">>, <<"agent:qa_engineer">>} :
       Cardinality(DOMAIN callbackCalls) < MaxRequestSubscriptions
       /\ subscribe("qa_engineer", ps, FALSE) /\ BusFrame
  \/ \E id \in DOMAIN subscriptions : unsubscribe(id) /\ BusFrame
  \/ \E to \in {"qa_engineer", "tech_lead"} :
       Len(requests) < MaxRequests /\ requestResponse(to) /\ BusFrame
  \/ OnPMessage /\ BusFrame
  \/ \E r \in 1..Len(requests) : ReplyPublished(r) /\ BusFrame
  \/ OnMessage /\ BusFrame
  \/ \E r \in 1..Len(requests) : TimerFires(r) /\ BusFrame

(***************************************************************************)
(* OrchestratorService and BaseAgent.  A call runs without interruption    *)
(* from one timer wait to the next: every other await in it is on a        *)
(* promise that is already settled.                                        *)
(***************************************************************************)
\* initializePhaseConfigs: phaseAgentMap, in activation order.
phaseAgentMap(phase) ==
  CASE phase = "planning" -> <<"tech_lead", "product_engineer">>
    [] phase = "scaffold" -> <<"tech_lead", "devops_specialist">>
    [] phase = "feature" -> <<"product_engineer", "code_reviewer">>
    [] phase = "test" -> <<"qa_engineer", "product_engineer">>
    [] phase = "review" -> <<"code_reviewer", "tech_lead", "qa_engineer">>
    [] phase = "deploy" -> <<"devops_specialist", "tech_lead">>

\* getPhaseExitCriteria(phase)
getPhaseExitCriteria(phase) ==
  CASE phase = "planning" -> <<"requirements_documented", "architecture_defined">>
    [] phase = "scaffold" -> <<"project_structure_created", "ci_cd_configured">>
    [] phase = "feature" -> <<"features_implemented", "unit_tests_passing">>
    [] phase = "test" -> <<"all_tests_passing", "coverage_target_met">>
    [] phase = "review" -> <<"code_review_approved", "security_scan_passed">>
    [] phase = "deploy" -> <<"deployment_successful", "health_checks_passing">>
    [] OTHER -> <<>>

\* phaseConfigs.get(phase) is defined
HasPhaseConfig(phase) == phase \in DevelopmentPhase

\* Mutant of checkExitCriterion: one criterion of planning is not met.
checkExitCriterion_Unmet(criterion) == criterion # "architecture_defined"

\* checkExitCriterion(criterion)
checkExitCriterion(criterion) == TRUE

\* validatePhaseTransition(from, to)
validatePhaseTransition(from, to) ==
  /\ HasPhaseConfig(from)
  /\ \A j \in 1..Len(getPhaseExitCriteria(from)) :
       checkExitCriterion(getPhaseExitCriteria(from)[j])

\* A BaseAgent after its constructor.
NewAgent == [state |-> "idle", currentTasks |-> {}, running |-> {}, tasksCompleted |-> 0]

\* BaseAgent.initialize()
initialize(agent) == [agent EXCEPT !.state = "idle"]

\* BaseAgent.shutdown(): state idle; cleanupResources empties currentTasks.
shutdown(agent) == [agent EXCEPT !.state = "idle", !.currentTasks = {}]

\* BaseAgent.isAvailable()
isAvailable(agent) == agent.state = "idle" /\ Cardinality(agent.currentTasks) < 3

\* calculateCurrentLoad: priorityWeight of a current task.
priorityWeight(p) ==
  CASE p = "LOW" -> 1
    [] p = "MEDIUM" -> 2
    [] p = "HIGH" -> 3
    [] p = "CRITICAL" -> 4

\* calculateCurrentLoad: taskWeight, the sum over currentTasks.
RECURSIVE taskWeight(_)
taskWeight(tasks) ==
  IF tasks = {} THEN 0
  ELSE LET task == CHOOSE t \in tasks : TRUE
       IN priorityWeight(task.priority) + taskWeight(tasks \ {task})

\* BaseAgent.calculateCurrentLoad(), in tenths: min(taskWeight / 10, 1.0).
calculateCurrentLoad(agent) ==
  IF taskWeight(agent.currentTasks) < 10 THEN taskWeight(agent.currentTasks) ELSE 10

\* BaseAgent.reportStatus()
reportStatus(agent) ==
  [state |-> agent.state, currentLoad |-> calculateCurrentLoad(agent),
   availability |-> isAvailable(agent),
   activeTaskCount |-> Cardinality(agent.currentTasks)]

\* A Map keeps its keys in insertion order: an entry is its value and its
\* position in that order.  Map.delete / Map.set / Map.keys on activeAgents.
MapDelete(m, k) == [r \in DOMAIN m \ {k} |-> m[r]]

MapSet(m, k, v) ==
  LET last == IF DOMAIN m = {} THEN 0
              ELSE CHOOSE n \in {m[r].position : r \in DOMAIN m} :
                     \A r \in DOMAIN m : m[r].position <= n
  IN [r \in DOMAIN m \cup {k} |->
        IF r = k
        THEN [position |-> IF k \in DOMAIN m THEN m[k].position ELSE last + 1,
              value |-> v]
        ELSE m[r]]

RECURSIVE MapKeys(_)
MapKeys(m) ==
  IF DOMAIN m = {} THEN <<>>
  ELSE LET first == CHOOSE k \in DOMAIN m :
                      \A r \in DOMAIN m : m[k].position <= m[r].position
       IN <<first>> \o MapKeys(MapDelete(m, first))

\* Mutant of Deactivated: every registered agent is deleted from
\* activeAgents at once, without gracefullyStopAgent.
RECURSIVE Deactivated_NoStop(_, _, _)
Deactivated_NoStop(ags, act, pending) ==
  IF pending = <<>>
  THEN [agents |-> ags, activeAgents |-> act, waiting |-> <<>>]
  ELSE Deactivated_NoStop(ags, MapDelete(act, Head(pending)), Tail(pending))

\* deactivateCurrentAgents from the registered agents `pending` on: an idle
\* agent is deleted from activeAgents; at an agent that is not idle the
\* call enters gracefullyStopAgent and waits (waiting = the agents left).
RECURSIVE Deactivated(_, _, _)
Deactivated(ags, act, pending) ==
  IF pending = <<>>
  THEN [agents |-> ags, activeAgents |-> act, waiting |-> <<>>]
  ELSE IF ags[Head(pending)].state # "idle"
       THEN [agents |-> ags, activeAgents |-> act, waiting |-> pending]
       ELSE Deactivated(ags, MapDelete(act, Head(pending)), Tail(pending))

\* activatePhaseAgents(personas): createOrGetAgent throws for a persona
\* that is not registered; else the agent is initialized and its status
\* stored.
RECURSIVE Activated(_, _, _)
Activated(ags, act, personas) ==
  IF personas = <<>>
  THEN [agents |-> ags, activeAgents |-> act, threw |-> FALSE]
  ELSE IF Head(personas) \notin DOMAIN ags
       THEN [agents |-> ags, activeAgents |-> act, threw |-> TRUE]
       ELSE LET agent == initialize(ags[Head(personas)])
            IN Activated([ags EXCEPT ![Head(personas)] = agent],
                         MapSet(act, Head(personas), reportStatus(agent)),
                         Tail(personas))

\* A call record: what was asked, the phase when it was made, whether the
\* exit criteria were validated, where the call stands, the agents it still
\* has to deactivate, and the agents it has shut down.
NewCall(op, phase, validated) ==
  [op |-> op, phase |-> phase, phaseAtStart |-> currentPhase,
   validated |-> validated, status |-> "running", phaseAtEnd |-> "",
   waiting |-> <<>>, stopped |-> <<>>, polls |-> 0]

\* The rest of initializePhase for call c from the registered agents
\* `pending` on: deactivation, which may stop at an agent that is not idle,
\* then activation, which may throw, then the return.
Continued(c, call, ags, act, pending, phaseNow) ==
  LET d == Deactivated(ags, act, pending)
      a == Activated(d.agents, d.activeAgents, phaseAgentMap(call.phase))
      after ==
        IF d.waiting # <<>>
        THEN [call EXCEPT !.status = "stopping", !.waiting = d.waiting]
        ELSE [call EXCEPT !.status = IF a.threw THEN "threw" ELSE "returned",
                          !.waiting = <<>>, !.phaseAtEnd = phaseNow]
  IN /\ agents' = IF d.waiting # <<>> THEN d.agents ELSE a.agents
     /\ activeAgents' = IF d.waiting # <<>> THEN d.activeAgents ELSE a.activeAgents
     /\ calls' = [i \in 1..(IF c > Len(calls) THEN c ELSE Len(calls)) |->
                    IF i = c THEN after ELSE calls[i]]

\* initializePhase(phase): currentPhase is assigned first; an unknown phase
\* throws after that.
initializePhase(phase) ==
  /\ currentPhase' = phase
  /\ IF ~HasPhaseConfig(phase)
     THEN /\ calls' = Append(calls, [NewCall("initializePhase", phase, FALSE) EXCEPT
                                       !.status = "threw", !.phaseAtEnd = phase])
          /\ UNCHANGED <<agents, activeAgents>>
     ELSE Continued(Len(calls) + 1, NewCall("initializePhase", phase, FALSE),
                    agents, activeAgents, KeySeq(DOMAIN agents), phase)
  /\ UNCHANGED nextTaskId

\* transitionPhase(toPhase): false for an unknown phase or an unmet exit
\* criterion; else completeCurrentPhase, whose waitForTaskCompletion
\* returns at once on an empty taskQueue and else sleeps in its loop, and
\* initializePhase(toPhase).
transitionPhase(toPhase) ==
  /\ IF \/ ~HasPhaseConfig(currentPhase)
        \/ ~HasPhaseConfig(toPhase)
        \/ ~validatePhaseTransition(currentPhase, toPhase)
     THEN /\ calls' = Append(calls, [NewCall("transitionPhase", toPhase, FALSE) EXCEPT
                                       !.status = "false", !.phaseAtEnd = currentPhase])
          /\ UNCHANGED <<currentPhase, agents, activeAgents>>
     ELSE IF taskQueue # <<>>
     THEN /\ calls' = Append(calls, [NewCall("transitionPhase", toPhase, TRUE) EXCEPT
                                       !.status = "draining"])
          /\ UNCHANGED <<currentPhase, agents, activeAgents>>
     ELSE /\ currentPhase' = toPhase
          /\ Continued(Len(calls) + 1, NewCall("transitionPhase", toPhase, TRUE),
                       agents, activeAgents, KeySeq(DOMAIN agents), toPhase)
  /\ UNCHANGED nextTaskId

\* waitForTaskCompletion of call c wakes after its 1000 ms: on a taskQueue
\* that is not empty it sleeps again, whatever the number of sleeps so
\* far; on an empty one the call goes on with initializePhase.
WaitForTaskCompletionWakes(c) ==
  /\ calls[c].status = "draining"
  /\ IF taskQueue # <<>>
     THEN /\ calls[c].polls < MaxDrainPolls
          /\ calls' = [calls EXCEPT ![c].polls = @ + 1]
          /\ UNCHANGED <<currentPhase, agents, activeAgents>>
     ELSE /\ currentPhase' = calls[c].phase
          /\ Continued(c, calls[c], agents, activeAgents, KeySeq(DOMAIN agents),
                       calls[c].phase)
  /\ UNCHANGED nextTaskId

\* A holder of the service puts a task into its public taskQueue.
TaskQueued(taskId) ==
  /\ taskQueue' = Append(taskQueue, taskId)
  /\ UNCHANGED <<currentPhase, activeAgents, agents, calls, nextTaskId>>

\* removeTaskFromQueue(taskId), the 'task:completed' listener.
removeTaskFromQueue(taskId) ==
  /\ taskQueue' = SelectSeq(taskQueue, LAMBDA id : id # taskId)
  /\ UNCHANGED <<currentPhase, activeAgents, agents, calls, nextTaskId>>

\* gracefullyStopAgent of call c leaves its polling loop, the agent being
\* idle or the 30 s being over: the agent is shut down and deleted from
\* activeAgents, and the call goes on.
StopWaitEnds(c) ==
  /\ calls[c].status = "stopping"
  /\ LET r == Head(calls[c].waiting)
         call == [calls[c] EXCEPT !.stopped =
                    Append(@, [persona |-> r,
                               reason |-> IF agents[r].state = "idle"
                                          THEN "idle" ELSE "timeout",
                               wasActive |-> r \in DOMAIN activeAgents])]
     IN Continued(c, call, [agents EXCEPT ![r] = shutdown(@)],
                  MapDelete(activeAgents, r), Tail(calls[c].waiting), currentPhase)
  /\ UNCHANGED <<currentPhase, nextTaskId>>

\* BaseAgent.executeTask(task), up to the await of the task's work.
executeTask(r, task) ==
  /\ r \in DOMAIN agents
  /\ agents' = [agents EXCEPT ![r].state = "working",
                              ![r].currentTasks = @ \cup {task},
                              ![r].running = @ \cup {task.id}]
  /\ nextTaskId' = nextTaskId + 1
  /\ UNCHANGED <<currentPhase, activeAgents, calls>>

\* executeTask, the work done: tasksCompleted + 1, state idle, and in
\* `finally` the task leaves currentTasks.
TaskSucceeded(r, id) ==
  /\ r \in DOMAIN agents
  /\ id \in agents[r].running
  /\ agents' = [agents EXCEPT ![r].state = "idle",
                              ![r].tasksCompleted = @ + 1,
                              ![r].currentTasks = {t \in @ : t.id # id},
                              ![r].running = @ \ {id}]
  /\ UNCHANGED <<currentPhase, activeAgents, calls, nextTaskId>>

\* executeTask, the work failed: state blocked, the error rethrown, and in
\* `finally` the task leaves currentTasks.
TaskFailed(r, id) ==
  /\ r \in DOMAIN agents
  /\ id \in agents[r].running
  /\ agents' = [agents EXCEPT ![r].state = "blocked",
                              ![r].currentTasks = {t \in @ : t.id # id},
                              ![r].running = @ \ {id}]
  /\ UNCHANGED <<currentPhase, activeAgents, calls, nextTaskId>>

\* The agents registered with the orchestrator.  The source leaves its
\* `agents` Map empty; the other registry stands for an orchestrator that
\* has been given agent implementations.
Registries == {{}, AgentPersona}

\* The orchestrator after its constructor, with the agents of `registry`.
OrchConstructed(registry) ==
  /\ currentPhase = "planning"
  /\ activeAgents = <<>>
  /\ agents = [r \in registry |-> NewAgent]
  /\ calls = <<>>
  /\ nextTaskId = 1
  /\ taskQueue = <<>>

\* The orchestrator as the source builds it: no agent registered.
OrchInit == OrchConstructed({})

PhaseCallInputs == {"review", "deploy", "production"}
TaskAgents == {"qa_engineer", "tech_lead"}

OrchFrame ==
  UNCHANGED <<agentVars, queueVars, storeVars, busVars, conflictVars, apiVars, taskQueue>>

NextOrch ==
  \/ \E ph \in PhaseCallInputs :
       Len(calls) < MaxPhaseCalls /\ initializePhase(ph) /\ OrchFrame
  \/ \E ph \in PhaseCallInputs :
       Len(calls) < MaxPhaseCalls /\ transitionPhase(ph) /\ OrchFrame
  \/ \E c \in 1..Len(calls) : StopWaitEnds(c) /\ OrchFrame
  \/ \E r \in TaskAgents :
       /\ nextTaskId <= MaxAgentTasks
       /\ executeTask(r, [id |-> nextTaskId, priority |-> "MEDIUM"])
       /\ OrchFrame
  \/ \E r \in TaskAgents, id \in 1..MaxAgentTasks : TaskSucceeded(r, id) /\ OrchFrame
  \/ \E r \in TaskAgents, id \in 1..MaxAgentTasks : TaskFailed(r, id) /\ OrchFrame

(***************************************************************************)
(* OrchestratorService.resolveConflict                                     *)
(***************************************************************************)
ConflictResolutionTypes == {"voting", "seniority", "consensus", "human-override"}

\* resolveBySeniority: seniorityOrder
seniorityOrder ==
  <<"tech_lead", "product_engineer", "qa_engineer",
    "devops_specialist", "doc_specialist", "code_reviewer">>

\* requestAgentVote / requestAgentDecision / requestAgentProposal
requestAgentVote(agent, context) == "default"
requestAgentDecision(agent, context) == context
requestAgentProposal(agent, context) == context

\* Mutant of resolveBySeniority: the first role listed decides.
resolveBySeniority_FirstListed(roles, context) ==
  IF roles = <<>>
  THEN [consulted |-> <<>>, status |-> "resolved", result |-> "null"]
  ELSE [consulted |-> <<roles[1]>>, status |-> "resolved",
        result |-> requestAgentDecision(roles[1], context)]

\* resolveBySeniority(agents, context): the first role of seniorityOrder
\* that the list includes is asked for its decision; null if there is none.
resolveBySeniority(roles, context) ==
  LET present == SelectSeq(seniorityOrder, LAMBDA senior : senior \in RangeOf(roles))
  IN IF present = <<>>
     THEN [consulted |-> <<>>, status |-> "resolved", result |-> "null"]
     ELSE [consulted |-> <<present[1]>>, status |-> "resolved",
           result |-> requestAgentDecision(present[1], context)]

\* resolveByVoting(agents, context): every role votes; reduce over the
\* entries of the tally, which throws for an empty tally.
resolveByVoting(roles, context) ==
  IF roles = <<>>
  THEN [consulted |-> <<>>, status |-> "threw", result |-> "TypeError"]
  ELSE [consulted |-> roles, status |-> "resolved",
        result |-> requestAgentVote(roles[1], context)]

\* resolveByConsensus(agents, context): findConsensus takes the first
\* proposal; with no role there is none in any of the three attempts.
resolveByConsensus(roles, context) ==
  IF roles = <<>>
  THEN [consulted |-> <<>>, status |-> "resolved", result |-> "undefined"]
  ELSE [consulted |-> roles, status |-> "resolved",
        result |-> requestAgentProposal(roles[1], context)]

\* requestHumanIntervention(agents, context): waits for the next
\* human:intervention:response event.
requestHumanIntervention(roles, context) ==
  [consulted |-> <<>>, status |-> "pending", result |-> "none"]

\* resolveConflict(agents, context)
resolveConflict(roles, context) ==
  LET outcome ==
        CASE conflictResolutionStrategy = "voting" -> resolveByVoting(roles, context)
          [] conflictResolutionStrategy = "seniority" -> resolveBySeniority(roles, context)
          [] conflictResolutionStrategy = "consensus" -> resolveByConsensus(roles, context)
          [] conflictResolutionStrategy = "human-override" ->
               requestHumanIntervention(roles, context)
  IN /\ conflicts' = Append(conflicts,
                            [strategy |-> conflictResolutionStrategy, roles |-> roles,
                             context |-> context, consulted |-> outcome.consulted,
                             status |-> outcome.status, result |-> outcome.result])
     /\ UNCHANGED conflictResolutionStrategy

\* A human:intervention:response event: every call that waits for one is
\* resolved with it.
HumanResponse(response) ==
  /\ \E i \in 1..Len(conflicts) : conflicts[i].status = "pending"
  /\ conflicts' = [i \in 1..Len(conflicts) |->
                     IF conflicts[i].status = "pending"
                     THEN [conflicts[i] EXCEPT !.status = "resolved", !.result = response]
                     ELSE conflicts[i]]
  /\ UNCHANGED conflictResolutionStrategy

\* setupConflictResolutionStrategy with the given type.
ConflictConfigured(type) ==
  /\ conflictResolutionStrategy = type
  /\ conflicts = <<>>

\* setupConflictResolutionStrategy as the source has it: consensus.
ConflictInit == ConflictConfigured("consensus")

ConflictRoleInputs == {"tech_lead", "qa_engineer", "code_reviewer"}
ContextInputs == {"ctx1", "ctx2"}

ConflictFrame == UNCHANGED <<agentVars, queueVars, storeVars, busVars, orchVars, apiVars>>

NextConflict ==
  \/ \E roles \in SeqsUpTo(ConflictRoleInputs, MaxRoles), context \in ContextInputs :
       Len(conflicts) < MaxConflicts /\ resolveConflict(roles, context) /\ ConflictFrame
  \/ \E response \in ContextInputs : HumanResponse(response) /\ ConflictFrame

(***************************************************************************)
(* The operations that assign a phase: the orchestrator's and the state    *)
(* store's.                                                                *)
(***************************************************************************)
NextPhase ==
  \/ \E ph \in PhaseCallInputs :
       Len(calls) < MaxPhaseOps /\ initializePhase(ph) /\ OrchFrame
  \/ \E ph \in PhaseCallInputs :
       Len(calls) < MaxPhaseOps /\ transitionPhase(ph) /\ OrchFrame
  \/ StoreFrame /\ onModuleInit
  \/ \E ph \in PhaseInputs : StoreFrame /\ setPhase(ph)
  \/ \E id \in 1..nextSnapshotId : StoreFrame /\ restoreSnapshot(id)

(***************************************************************************)
(* SystemController: the phase endpoints.  A request is one step here: no  *)
(* agent is busy in this part of the model, so no call waits on a timer.   *)
(***************************************************************************)
\* No request made yet.
ApiInit ==
  /\ phaseRequests = <<>>
  /\ taskRequests = <<>>
  /\ overloadSignals = <<>>
  /\ lookups = <<>>

\* The record of one phase request: the phases of the orchestrator and of
\* the store when it came in, how it ended, and the snapshot it took (0:
\* none).
PhaseRequest(op, phase, status, snapshot) ==
  [op |-> op, phase |-> phase, fromPhase |-> currentPhase,
   storePhase |-> LiveState.phase, status |-> status, snapshot |-> snapshot]

\* POST phase/transition {toPhase}: orchestrator.transitionPhase; false
\* and a throw both end in an HttpException; on true stateManager.setPhase.
PostPhaseTransition(toPhase) ==
  /\ lifecycle = "running"
  /\ transitionPhase(toPhase)
  /\ IF calls'[Len(calls')].status = "returned"
     THEN /\ setPhase(toPhase)
          /\ phaseRequests' = Append(phaseRequests,
               PhaseRequest("transition", toPhase, "success", nextSnapshotId))
     ELSE /\ UNCHANGED storeVars
          /\ phaseRequests' = Append(phaseRequests,
               PhaseRequest("transition", toPhase,
                            IF calls'[Len(calls')].status \in {"stopping", "draining"}
                            THEN "pending" ELSE "error", 0))
  /\ UNCHANGED <<taskRequests, overloadSignals, lookups>>

\* POST phase/initialize {phase}: orchestrator.initializePhase, and nothing
\* else.
PostPhaseInitialize(phase) ==
  /\ lifecycle = "running"
  /\ initializePhase(phase)
  /\ phaseRequests' = Append(phaseRequests,
       PhaseRequest("initialize", phase,
                    CASE calls'[Len(calls')].status = "returned" -> "success"
                      [] calls'[Len(calls')].status = "stopping" -> "pending"
                      [] OTHER -> "error", 0))
  /\ UNCHANGED storeVars
  /\ UNCHANGED <<taskRequests, overloadSignals, lookups>>

\* POST snapshots/:snapshotId/restore: stateManager.restoreSnapshot.
PostSnapshotRestore(snapshotId) ==
  /\ lifecycle = "running"
  /\ restoreSnapshot(snapshotId)
  /\ phaseRequests' = Append(phaseRequests,
       PhaseRequest("restore", "", IF snapshotId \in DOMAIN redis.snapshots
                                   THEN "success" ELSE "error", 0))
  /\ UNCHANGED orchVars
  /\ UNCHANGED <<taskRequests, overloadSignals, lookups>>

ControlFrame == UNCHANGED <<agentVars, queueVars, busVars, conflictVars, clientVars, taskQueue>>

NextControl ==
  \/ StoreFrame /\ onModuleInit
  \/ \E ph \in PhaseCallInputs :
       Len(phaseRequests) < MaxPhaseRequests /\ PostPhaseTransition(ph) /\ ControlFrame
  \/ \E ph \in PhaseCallInputs :
       Len(phaseRequests) < MaxPhaseRequests /\ PostPhaseInitialize(ph) /\ ControlFrame
  \/ \E id \in 1..nextSnapshotId :
       Len(phaseRequests) < MaxPhaseRequests /\ PostSnapshotRestore(id) /\ ControlFrame

(***************************************************************************)
(* TaskDispatcherService: the 'agent:overloaded' event                     *)
(***************************************************************************)
\* The events the dispatcher listens to once onModuleInit is over: the call
\* of setupEventListeners is commented out there, so none.
eventListeners == {}

\* initializeQueues: the roster in the order its queues enter the Map.
initialAgents ==
  <<"tech_lead", "product_engineer", "qa_engineer",
    "devops_specialist", "doc_specialist", "code_reviewer">>

RECURSIVE InSomeOrder(_)
InSomeOrder(S) ==
  IF S = {} THEN <<>>
  ELSE LET x == CHOOSE y \in S : TRUE IN <<x>> \o InSomeOrder(S \ {x})

\* taskQueues.keys(): the roster first, queues created later after it.
QueueKeys ==
  SelectSeq(initialAgents, LAMBDA a : a \in taskQueues)
    \o InSomeOrder(taskQueues \ RangeOf(initialAgents))

\* getAgentMetrics(agent).queueDepth over the jobs js: waiting + active.
queueDepth(js, agent) ==
  Cardinality({i \in 1..Len(js) :
                 js[i].name = agent /\ js[i].state \in {"waiting", "active"}})

\* findAlternativeAgent(task, excludeAgent) over the jobs js: the first of
\* the other queues with the smallest queueDepth, null without another queue.
findAlternativeAgent(js, excludeAgent) ==
  LET others == SelectSeq(QueueKeys, LAMBDA a : a # excludeAgent)
  IN IF others = <<>> THEN "null"
     ELSE others[CHOOSE k \in 1..Len(others) :
                   /\ \A m \in 1..Len(others) :
                        queueDepth(js, others[k]) <= queueDepth(js, others[m])
                   /\ \A m \in 1..(k - 1) :
                        queueDepth(js, others[m]) > queueDepth(js, others[k])]

\* The loop of redistributeTasks over the jobs `pending`: a job with an
\* alternative agent is removed and its task, reassigned, dispatched anew.
RECURSIVE Redistributed(_, _, _, _)
Redistributed(js, wo, pending, fromAgent) ==
  IF pending = <<>> THEN [jobs |-> js, waitOrder |-> wo]
  ELSE LET i == Head(pending)
           alternativeAgent == findAlternativeAgent(js, fromAgent)
       IN IF alternativeAgent = "null"
          THEN Redistributed(js, wo, Tail(pending), fromAgent)
          ELSE Redistributed(
                 Append([js EXCEPT ![i].state = "removed"],
                        NewJob([js[i].data EXCEPT !.assignedTo = alternativeAgent],
                               TRUE, FALSE)),
                 Append(SelectSeq(wo, LAMBDA k : k # i), Len(js) + 1),
                 Tail(pending), fromAgent)

\* redistributeTasks(fromAgent): getWaiting(0, 10) is the first eleven
\* waiting jobs of the queue.
redistributeTasks(fromAgent) ==
  IF fromAgent \notin taskQueues THEN UNCHANGED queueVars
  ELSE LET waiting == SelectSeq(waitOrder, LAMBDA i : jobs[i].name = fromAgent)
           waitingJobs == SubSeq(waiting, 1, IF Len(waiting) < 11 THEN Len(waiting) ELSE 11)
           after == Redistributed(jobs, waitOrder, waitingJobs, fromAgent)
       IN /\ jobs' = after.jobs
          /\ waitOrder' = after.waitOrder
          /\ taskEvents' = taskEvents \cup
               {[event |-> "task:dispatched", taskId |-> i] :
                  i \in (Len(jobs) + 1)..Len(after.jobs)}
          /\ UNCHANGED <<taskQueues, retriedCount>>

\* eventEmitter.emit('agent:overloaded', {agent}): every listener of the
\* event runs.
EmitAgentOverloaded(agent) ==
  /\ overloadSignals' = Append(overloadSignals, [agent |-> agent])
  /\ IF "agent:overloaded" \in eventListeners
     THEN redistributeTasks(agent)
     ELSE UNCHANGED queueVars
  /\ UNCHANGED <<phaseRequests, taskRequests, lookups>>

OverloadFrame == UNCHANGED <<agentVars, storeVars, busVars, orchVars, conflictVars>>

NextOverload ==
  \/ \E task \in Task : Len(jobs) < MaxJobs /\ dispatchTask(task) /\ QueueFrame
  \/ \E agent \in TaskRoles : WorkerStart(agent) /\ QueueFrame
  \/ \E agent \in TaskRoles :
       Len(overloadSignals) < MaxOverloadSignals /\ EmitAgentOverloaded(agent) /\ OverloadFrame

(***************************************************************************)
(* OrchestratorService.assignTask and TasksController.createTask           *)
(***************************************************************************)
\* getAvailableAgents(): the personas of activeAgents, in Map order, whose
\* stored status has availability and currentLoad < 0.8.
getAvailableAgents ==
  SelectSeq(MapKeys(activeAgents),
            LAMBDA persona : /\ activeAgents[persona].value.availability
                             /\ activeAgents[persona].value.currentLoad < 8)

\* Mutant of selectBestAgent: with no candidate it falls back on tech_lead.
selectBestAgent_Fallback(task, availableAgents) ==
  IF availableAgents = <<>> THEN "tech_lead" ELSE availableAgents[1]

\* selectBestAgent(task, availableAgents): null for no candidate, else
\* selectBySkills, which takes the first.
selectBestAgent(task, availableAgents) ==
  IF availableAgents = <<>> THEN "null" ELSE availableAgents[1]

\* The record of one createTask request: the task as the controller built
\* it, the task as it is now, the agents active when it came in, the
\* candidates assignTask found among them, where the request stands and whether task:assigned was emitted.
TaskRequest(dto, submitted, task, candidates, status, error, assignedEvent) ==
  [requested |-> dto.assignedTo, submitted |-> submitted, task |-> task,
   active |-> DOMAIN activeAgents, candidates |-> candidates, status |-> status, error |-> error,
   assignedEvent |-> assignedEvent]

\* assignTask(task) for request n, up to the await of the task's work in
\* dispatchTaskToAgent: throws with no candidate; else writes
\* task.assignedTo and calls executeTask on the agent instance, if there is
\* one.
assignTask(dto, task) ==
  LET availableAgents == getAvailableAgents
      assignedAgent == selectBestAgent(task, availableAgents)
      assigned == [task EXCEPT !.assignedTo = assignedAgent]
  IN IF assignedAgent = "null"
     THEN /\ taskRequests' = Append(taskRequests,
               TaskRequest(dto, task, task, availableAgents, "error",
                           "No available agent for task assignment", FALSE))
          /\ UNCHANGED orchVars
     ELSE IF assignedAgent \in DOMAIN agents
          THEN /\ executeTask(assignedAgent, assigned)
               /\ taskRequests' = Append(taskRequests,
                    TaskRequest(dto, task, assigned, availableAgents, "executing",
                                "none", FALSE))
          ELSE /\ taskRequests' = Append(taskRequests,
                    TaskRequest(dto, task, assigned, availableAgents, "created",
                                "none", TRUE))
               /\ UNCHANGED orchVars

\* POST api/tasks (createTask): the task gets the assignee of the request
\* or tech_lead; without an assignee in the request it goes to
\* orchestrator.assignTask, with one to taskDispatcher.dispatchTask.
createTask(dto) ==
  LET task == [id |-> Len(taskRequests) + 1, priority |-> dto.priority,
               assignedTo |-> IF dto.assignedTo = "none" THEN "tech_lead"
                              ELSE dto.assignedTo]
  IN IF dto.assignedTo = "none"
     THEN /\ assignTask(dto, task)
          /\ UNCHANGED queueVars
     ELSE /\ dispatchTask(task)
          /\ taskRequests' = Append(taskRequests,
               TaskRequest(dto, task, task, <<>>, "created", "none", FALSE))
          /\ UNCHANGED orchVars

\* The work of the task of request n is done: executeTask returns, then
\* assignTask emits task:assigned and returns the agent, and createTask
\* returns the task.
AssignedTaskSucceeded(n) ==
  /\ taskRequests[n].status = "executing"
  /\ TaskSucceeded(taskRequests[n].task.assignedTo, taskRequests[n].task.id)
  /\ taskRequests' = [taskRequests EXCEPT ![n].status = "created",
                                          ![n].assignedEvent = TRUE]
  /\ UNCHANGED queueVars

\* The work of the task of request n fails: executeTask rethrows, and so
\* do assignTask and createTask.
AssignedTaskFailed(n) ==
  /\ taskRequests[n].status = "executing"
  /\ TaskFailed(taskRequests[n].task.assignedTo, taskRequests[n].task.id)
  /\ taskRequests' = [taskRequests EXCEPT ![n].status = "error",
                                          ![n].error = "task"]
  /\ UNCHANGED queueVars

\* pauseAgent(persona): the agent instance, if there is one, is paused and
\* its status stored in activeAgents.
pauseAgent(persona) ==
  /\ persona \in DOMAIN agents
  /\ agents' = [agents EXCEPT ![persona].state = "paused"]
  /\ activeAgents' = MapSet(activeAgents, persona, reportStatus(agents'[persona]))
  /\ UNCHANGED <<currentPhase, calls, nextTaskId>>

\* Requests of the model: no assignee, a roster role, a name outside the
\* roster; the lightest and the heaviest priority.
CreateTaskInputs == [assignedTo : {"none", "qa_engineer", "intruder"},
                     priority : {"LOW", "CRITICAL"}]

\* The agent the model pauses: the first that a phase activates.
PauseInputs == {"code_reviewer"}

\* The phase the model initializes to make agents active.
IntakePhaseInputs == {"review"}

IntakeFrame ==
  UNCHANGED <<agentVars, storeVars, busVars, conflictVars, phaseRequests, overloadSignals,
              lookups, taskQueue>>

IntakePhaseFrame ==
  UNCHANGED <<agentVars, queueVars, storeVars, busVars, conflictVars, apiVars, taskQueue>>

NextIntake ==
  \/ \E dto \in CreateTaskInputs :
       Len(taskRequests) < MaxTaskRequests /\ createTask(dto) /\ IntakeFrame
  \/ \E n \in 1..Len(taskRequests) : AssignedTaskSucceeded(n) /\ IntakeFrame
  \/ \E n \in 1..Len(taskRequests) : AssignedTaskFailed(n) /\ IntakeFrame
  \/ \E ph \in IntakePhaseInputs :
       Len(calls) < MaxIntakePhaseCalls /\ initializePhase(ph) /\ IntakePhaseFrame
  \/ \E c \in 1..Len(calls) : StopWaitEnds(c) /\ IntakePhaseFrame
  \/ \E persona \in PauseInputs : pauseAgent(persona) /\ IntakePhaseFrame

(***************************************************************************)
(* Calls by id: getTaskStatus, cancelTask, restoreSnapshot, unsubscribe    *)
(***************************************************************************)
\* The call `op` with `id` ends with `outcome` ("returned", or the message
\* of the error it throws); `found` says whether its lookup found the id.
Requested(op, id, found, outcome) ==
  lookups' = Append(lookups, [op |-> op, id |-> id, found |-> found,
                              outcome |-> outcome])

\* queue.getJob(taskId) on the queue of `agent` finds a job.
getJob(agent, taskId) ==
  /\ taskId \in 1..Len(jobs)
  /\ jobs[taskId].name = agent
  /\ jobs[taskId].state # "removed"

\* getTaskStatus(taskId, agent): throws without a queue and without a job.
getTaskStatus(taskId, agent) ==
  /\ Requested("getTaskStatus", taskId, getJob(agent, taskId),
               IF agent \notin taskQueues THEN "Queue not found for agent"
               ELSE IF ~getJob(agent, taskId) THEN "Task not found"
               ELSE "returned")
  /\ UNCHANGED queueVars

\* cancelTask(taskId, agent): throws without a queue; removes the job and
\* emits task:cancelled if there is one (job.remove() throws for a job a
\* worker holds), and returns.
cancelTask(taskId, agent) ==
  IF agent \notin taskQueues
  THEN /\ Requested("cancelTask", taskId, FALSE, "Queue not found for agent")
       /\ UNCHANGED queueVars
  ELSE IF ~getJob(agent, taskId)
  THEN /\ Requested("cancelTask", taskId, FALSE, "returned")
       /\ UNCHANGED queueVars
  ELSE IF jobs[taskId].state = "active"
  THEN /\ Requested("cancelTask", taskId, TRUE, "Job could not be removed")
       /\ UNCHANGED queueVars
  ELSE /\ jobs' = [jobs EXCEPT ![taskId].state = "removed"]
       /\ waitOrder' = SelectSeq(waitOrder, LAMBDA k : k # taskId)
       /\ Emit("task:cancelled", taskId)
       /\ Requested("cancelTask", taskId, TRUE, "returned")
       /\ UNCHANGED <<taskQueues, retriedCount>>

\* A client calls restoreSnapshot(snapshotId).
CallRestoreSnapshot(snapshotId) ==
  /\ restoreSnapshot(snapshotId)
  /\ Requested("restoreSnapshot", snapshotId,
               redisUp /\ snapshotId \in DOMAIN redis.snapshots,
               IF ~redisUp THEN "storage error"
               ELSE IF snapshotId \notin DOMAIN redis.snapshots
               THEN "Snapshot not found" ELSE "returned")

\* A client calls unsubscribe(subscriptionId), which returns nothing.
CallUnsubscribe(subscriptionId) ==
  /\ unsubscribe(subscriptionId)
  /\ Requested("unsubscribe", subscriptionId,
               subscriptionId \in DOMAIN subscriptions, "returned")

LookupTask == [id : {1}, priority : {"MEDIUM"}, assignedTo : {"qa_engineer"}]

LookupAgents == {"qa_engineer", "tech_lead"}

ApiFrame == UNCHANGED <<phaseRequests, taskRequests, overloadSignals>>

LookupFrame == Len(lookups) < MaxLookups /\ ApiFrame

\* Clients that look up tasks, snapshots and subscriptions by id, known and
\* unknown.
NextLookup ==
  \/ \E t \in LookupTask :
       Len(jobs) < MaxLookupJobs /\ dispatchTask(t) /\ QueueFrame
  \/ \E agent \in LookupAgents : WorkerStart(agent) /\ QueueFrame
  \/ \E id \in 1..MaxLookupId, agent \in LookupAgents :
       /\ LookupFrame /\ getTaskStatus(id, agent)
       /\ UNCHANGED <<agentVars, storeVars, busVars, orchVars, conflictVars>>
  \/ \E id \in 1..MaxLookupId, agent \in LookupAgents :
       /\ LookupFrame /\ cancelTask(id, agent)
       /\ UNCHANGED <<agentVars, storeVars, busVars, orchVars, conflictVars>>
  \/ StoreFrame /\ onModuleInit
  \/ StoreFrame /\ createSnapshot(<<"manual">>)
  \/ \E id \in 1..MaxLookupId :
       /\ LookupFrame /\ storeOps < MaxStoreOps /\ CallRestoreSnapshot(id)
       /\ UNCHANGED <<agentVars, queueVars, busVars, orchVars, conflictVars, clientVars>>
  \/ Cardinality(DOMAIN callbackCalls) < MaxSubscriptions
       /\ subscribe("qa_engineer", <<"agent:*">>, FALSE) /\ BusFrame
  \/ \E id \in 1..MaxLookupId :
       /\ LookupFrame /\ CallUnsubscribe(id)
       /\ UNCHANGED <<agentVars, queueVars, storeVars, orchVars, conflictVars>>

\* The tasks of the event model: one queue, one priority.
EventTask == [id : {1}, priority : {"MEDIUM"}, assignedTo : {"qa_engineer"}]

\* Jobs enqueued one by one and in bulk, run, failed, retried and cancelled.
NextEvents ==
  \/ \E t \in EventTask :
       Len(jobs) < MaxEventJobs /\ dispatchTask(t) /\ QueueFrame
  \/ \E t \in EventTask :
       Len(jobs) < MaxEventJobs /\ bulkDispatch(<<t>>) /\ QueueFrame
  \/ WorkerStart("qa_engineer") /\ QueueFrame
  \/ \E i \in 1..Len(jobs) : JobCompleted(i) /\ QueueFrame
  \/ \E i \in 1..Len(jobs) : JobFailed(i) /\ QueueFrame
  \/ \E i \in 1..Len(jobs) : DelayElapsed(i) /\ QueueFrame
  \/ \E id \in 1..MaxEventJobs :
       /\ LookupFrame /\ cancelTask(id, "qa_engineer")
       /\ UNCHANGED <<agentVars, storeVars, busVars, orchVars, conflictVars>>

DrainPhaseInputs == {"scaffold", "review"}

DrainFrame == UNCHANGED <<agentVars, queueVars, storeVars, busVars, conflictVars, apiVars>>

\* Phase transitions on a taskQueue that fills and empties.
NextDrain ==
  \/ \E id \in 1..MaxQueuedTasks :
       Len(taskQueue) < MaxQueuedTasks /\ TaskQueued(id) /\ DrainFrame
  \/ \E id \in 1..MaxQueuedTasks :
       id \in RangeOf(taskQueue) /\ removeTaskFromQueue(id) /\ DrainFrame
  \/ \E ph \in DrainPhaseInputs :
       Len(calls) < MaxDrainCalls /\ transitionPhase(ph) /\ OrchFrame
  \/ \E c \in 1..Len(calls) : WaitForTaskCompletionWakes(c) /\ OrchFrame

\* The histories are filled one after the other (the two services share
\* no state): first the bus publishes, then the Store snapshots.  broadcast
\* and setPhase are called on the empty and on the full history.
HistoryBusFrame == Len(published) < MaxHistoryMessages /\ BusFrame

HistoryStoreFrame ==
  /\ Len(published) = MaxHistoryMessages
  /\ nextSnapshotId <= MaxHistorySnapshots
  /\ UNCHANGED <<agentVars, queueVars, busVars, orchVars, conflictVars, apiVars, clientVars>>

NextHistory ==
  \/ HistoryBusFrame /\ publish(NewMessage("qa_engineer", "TASK"))
  \/ /\ HistoryBusFrame /\ Len(messageHistory) \in {0, busMaxHistorySize}
     /\ broadcast(NewMessage("all", "TASK"))
  \/ HistoryStoreFrame /\ onModuleInit
  \/ HistoryStoreFrame /\ createSnapshot(<<"manual">>)
  \/ /\ HistoryStoreFrame /\ Len(stateHistory) \in {0, maxHistorySize}
     /\ setPhase("scaffold")

\* Snapshots taken and listed, with every limit from 0 on.
NextSnapshots ==
  \/ StoreFrame /\ onModuleInit
  \/ StoreFrame /\ nextSnapshotId <= MaxListedSnapshots /\ createSnapshot(<<"manual">>)
  \/ \E ph \in PhaseInputs :
       StoreFrame /\ nextSnapshotId <= MaxListedSnapshots /\ setPhase(ph)
  \/ \E limit \in 0..MaxLimit : StoreFrame /\ getStateHistory(limit)

\* Conflicts under human-override: calls that wait and responses.
NextOverride ==
  \/ \E roles \in SeqsUpTo(ConflictRoleInputs, 2), context \in ContextInputs :
       /\ Len(conflicts) < MaxPendingConflicts
       /\ resolveConflict(roles, context) /\ ConflictFrame
  \/ \E response \in ContextInputs : HumanResponse(response) /\ ConflictFrame

\* The payload of the phase:transitioned event of a transitionPhase call
\* that returned true: fromPhase is this.currentPhase when it is emitted.
PhaseTransitioned(call) ==
  [fromPhase |-> call.phaseAtEnd, toPhase |-> call.phase]

(***************************************************************************)
(* BaseAgent (src/core/agents/base-agent.ts): one agent, the executeTask   *)
(* calls made on it, its message queue and its life cycle.  An async       *)
(* method runs up to its next await in one step; what follows the await    *)
(* runs in a later step, and the steps of overlapping calls interleave.    *)
(***************************************************************************)
MaxAgentExecs == 2
MaxAgentMessages == 2
MaxAgentPauses == 1

\* What a task does to the call that executes it: nothing, or make
\* validateTask or performTask throw.
TaskFaults == {"none", "validate", "perform"}

\* The messages given to processMessage: a TASK, whose payload is a task,
\* or a QUERY.
AgentMessageInputs ==
  [messageType : {"TASK"}, fault : TaskFaults]
    \cup {[messageType |-> "QUERY", fault |-> "none"]}

\* Every task is another one (Task.id): the tasks of the direct callers,
\* then the payloads of the messages.
NextDirectTask == Len(SelectSeq(execs, LAMBDA e : e.drain = 0)) + 1

MessageTask(m) == MaxAgentExecs + m

\* The tasks handed to the agent so far, by a call or in a message.
TasksHanded ==
  NextDirectTask - 1 + Len(SelectSeq(inbox, LAMBDA m : m.messageType = "TASK"))

\* The agent after its constructor, with a listener registered for each of
\* its events.
AgentInit ==
  /\ baseAgent = [state |-> "idle", currentTasks |-> <<>>, messageQueue |-> <<>>,
              tasksCompleted |-> 0, listeners |-> TRUE]
  /\ execs = <<>>
  /\ drains = <<>>
  /\ agentEvents = {}
  /\ inbox = <<>>
  /\ handled = <<>>
  /\ shutdownPc = "none"

\* What a stretch of code reads and writes.
World ==
  [agent |-> baseAgent, execs |-> execs, drains |-> drains,
   agentEvents |-> agentEvents, handled |-> handled]

Becomes(w) ==
  /\ baseAgent' = w.agent
  /\ execs' = w.execs
  /\ drains' = w.drains
  /\ agentEvents' = w.agentEvents
  /\ handled' = w.handled

\* EventEmitter.emit: the listeners registered at that moment are called.
emit(w, event, subject) ==
  [w EXCEPT !.agentEvents =
     @ \cup {[event |-> event, subject |-> subject,
              heard |-> w.agent.listeners]}]

\* executeTask up to `await this.validateTask(task)`; drain is the
\* processMessageQueue loop that awaits the call (0: a direct caller).
ExecuteTaskStarts(w, task, fault, drain) ==
  emit([w EXCEPT !.agent.state = "working",
                 !.agent.currentTasks = Append(@, task),
                 !.execs = Append(@, [task |-> task, fault |-> fault,
                                      pc |-> "validateTask", drain |-> drain])],
       "task:started", task)

\* The catch block of executeTask up to `await this.handleTaskError(...)`.
ExecuteTaskCatches(w, c) ==
  emit([w EXCEPT !.agent.state = "blocked",
                 !.execs[c].pc = "handleTaskError"],
       "task:error", w.execs[c].task)

\* The finally block of executeTask.
RemoveTask(tasks, task) == SelectSeq(tasks, LAMBDA t : t # task)

\* updateMetrics('tasksCompleted', value).
updateMetrics(w, value) ==
  emit([w EXCEPT !.agent.tasksCompleted = value], "metrics:updated", value)

\* processMessageQueue from the test of its while loop to its next await.
ProcessMessageQueueLoop(w, d, messages) ==
  IF w.agent.messageQueue = <<>> \/ w.agent.state # "idle"
  THEN [w EXCEPT !.drains[d] = [pc |-> "returned", exec |-> 0]]
  ELSE LET m == Head(w.agent.messageQueue)
           w1 == [w EXCEPT !.agent.messageQueue = Tail(@),
                           !.handled = Append(@, m)]
       IN IF messages[m].messageType = "TASK"
          THEN [ExecuteTaskStarts(w1, MessageTask(m), messages[m].fault, d)
                  EXCEPT !.drains[d] = [pc |-> "executeTask",
                                        exec |-> Len(w.execs) + 1]]
          ELSE [emit(w1, "query:received", m)
                  EXCEPT !.drains[d] = [pc |-> "handleMessage", exec |-> 0]]

\* A call of processMessageQueue.
ProcessMessageQueueCalled(w, messages) ==
  ProcessMessageQueueLoop(
    [w EXCEPT !.drains = Append(@, [pc |-> "called", exec |-> 0])],
    Len(w.drains) + 1, messages)

\* executeTask(task) called by a client of the agent.
ExecuteTaskCalled(fault) ==
  /\ TasksHanded < MaxAgentExecs
  /\ Becomes(ExecuteTaskStarts(World, NextDirectTask, fault, 0))
  /\ UNCHANGED <<inbox, shutdownPc>>

\* validateTask settles: performTask is called, or the error is caught.
ValidateTaskSettles(c) ==
  /\ execs[c].pc = "validateTask"
  /\ IF execs[c].fault = "validate"
     THEN Becomes(ExecuteTaskCatches(World, c))
     ELSE Becomes([World EXCEPT !.execs[c].pc = "performTask"])
  /\ UNCHANGED <<inbox, shutdownPc>>

\* performTask settles: reportTaskCompletion emits task:completed, or the
\* error is caught.
PerformTaskSettles(c) ==
  /\ execs[c].pc = "performTask"
  /\ IF execs[c].fault = "perform"
     THEN Becomes(ExecuteTaskCatches(World, c))
     ELSE Becomes(emit([World EXCEPT !.execs[c].pc = "reportTaskCompletion"],
                       "task:completed", execs[c].task))
  /\ UNCHANGED <<inbox, shutdownPc>>

\* reportTaskCompletion settles, in an agent that counts a task only when
\* no other task is in progress.
ReportTaskCompletionSettles_SkipsWhenBusy(c) ==
  /\ execs[c].pc = "reportTaskCompletion"
  /\ LET w1 == updateMetrics(World,
                  IF Len(baseAgent.currentTasks) > 1
                  THEN baseAgent.tasksCompleted
                  ELSE baseAgent.tasksCompleted + 1)
     IN Becomes([w1 EXCEPT !.agent.state = "idle",
                           !.agent.currentTasks = RemoveTask(@, execs[c].task),
                           !.execs[c].pc = "returned"])
  /\ UNCHANGED <<inbox, shutdownPc>>

\* reportTaskCompletion settles: the rest of the try block, the finally
\* block, and the call returns.
ReportTaskCompletionSettles(c) ==
  /\ execs[c].pc = "reportTaskCompletion"
  /\ LET w1 == updateMetrics(World, baseAgent.tasksCompleted + 1)
     IN Becomes([w1 EXCEPT !.agent.state = "idle",
                           !.agent.currentTasks = RemoveTask(@, execs[c].task),
                           !.execs[c].pc = "returned"])
  /\ UNCHANGED <<inbox, shutdownPc>>

\* handleTaskError settles: the error is thrown again, the finally block
\* runs and the call rejects.
HandleTaskErrorSettles(c) ==
  /\ execs[c].pc = "handleTaskError"
  /\ Becomes([World EXCEPT !.agent.currentTasks = RemoveTask(@, execs[c].task),
                           !.execs[c].pc = "threw"])
  /\ UNCHANGED <<inbox, shutdownPc>>

\* processMessage(message).
processMessage(message) ==
  /\ Len(inbox) < MaxAgentMessages
  /\ message.messageType = "TASK" => TasksHanded < MaxAgentExecs
  /\ inbox' = Append(inbox, message)
  /\ LET m == Len(inbox) + 1
         w1 == emit([World EXCEPT !.agent.messageQueue = Append(@, m)],
                    "message:received", m)
     IN IF baseAgent.state = "idle"
        THEN Becomes(ProcessMessageQueueCalled(w1, inbox'))
        ELSE Becomes(w1)
  /\ UNCHANGED shutdownPc

\* The await of a processMessageQueue loop settles: the loop goes on, or
\* the error of executeTask ends it.
HandleMessageSettles(d) ==
  /\ \/ drains[d].pc = "handleMessage"
     \/ /\ drains[d].pc = "executeTask"
        /\ execs[drains[d].exec].pc \in {"returned", "threw"}
  /\ IF drains[d].pc = "executeTask" /\ execs[drains[d].exec].pc = "threw"
     THEN Becomes([World EXCEPT !.drains[d].pc = "threw"])
     ELSE Becomes(ProcessMessageQueueLoop(World, d, inbox))
  /\ UNCHANGED <<inbox, shutdownPc>>

\* The number of events of one name emitted so far.
EmittedCount(event) ==
  Cardinality({e \in agentEvents : e.event = event})

\* pause().
pause ==
  /\ EmittedCount("agent:paused") < MaxAgentPauses
  /\ Becomes(emit([World EXCEPT !.agent.state = "paused"], "agent:paused",
                   EmittedCount("agent:paused") + 1))
  /\ UNCHANGED <<inbox, shutdownPc>>

\* resume(), called for a pause() made before.
resume ==
  /\ EmittedCount("agent:resumed") < EmittedCount("agent:paused")
  /\ Becomes(ProcessMessageQueueCalled(
       emit([World EXCEPT !.agent.state = "idle"], "agent:resumed",
            EmittedCount("agent:resumed") + 1), inbox))
  /\ UNCHANGED <<inbox, shutdownPc>>

\* shutdown() up to `await this.saveMemory()`.
ShutdownCalled ==
  /\ shutdownPc = "none"
  /\ baseAgent' = [baseAgent EXCEPT !.state = "idle"]
  /\ shutdownPc' = "saveMemory"
  /\ UNCHANGED <<execs, drains, agentEvents, inbox, handled>>

\* saveMemory settles: cleanupResources empties the queue and the tasks.
SaveMemorySettles ==
  /\ shutdownPc = "saveMemory"
  /\ baseAgent' = [baseAgent EXCEPT !.messageQueue = <<>>, !.currentTasks = <<>>]
  /\ shutdownPc' = "cleanupResources"
  /\ UNCHANGED <<execs, drains, agentEvents, inbox, handled>>

\* cleanupResources settles: removeAllListeners(), then the emit.
CleanupResourcesSettles ==
  /\ shutdownPc = "cleanupResources"
  /\ Becomes(emit([World EXCEPT !.agent.listeners = FALSE], "agent:shutdown", 0))
  /\ shutdownPc' = "returned"
  /\ UNCHANGED inbox

AgentFrame ==
  UNCHANGED <<queueVars, storeVars, busVars, orchVars, conflictVars, apiVars>>

\* Calls of executeTask alone.
NextTasks ==
  \/ \E fault \in TaskFaults : ExecuteTaskCalled(fault) /\ AgentFrame
  \/ \E c \in 1..Len(execs) : ValidateTaskSettles(c) /\ AgentFrame
  \/ \E c \in 1..Len(execs) : PerformTaskSettles(c) /\ AgentFrame
  \/ \E c \in 1..Len(execs) : ReportTaskCompletionSettles(c) /\ AgentFrame
  \/ \E c \in 1..Len(execs) : HandleTaskErrorSettles(c) /\ AgentFrame

NextAgent ==
  \/ \E fault \in TaskFaults : ExecuteTaskCalled(fault) /\ AgentFrame
  \/ \E c \in 1..Len(execs) : ValidateTaskSettles(c) /\ AgentFrame
  \/ \E c \in 1..Len(execs) : PerformTaskSettles(c) /\ AgentFrame
  \/ \E c \in 1..Len(execs) : ReportTaskCompletionSettles(c) /\ AgentFrame
  \/ \E c \in 1..Len(execs) : HandleTaskErrorSettles(c) /\ AgentFrame
  \/ \E message \in AgentMessageInputs : processMessage(message) /\ AgentFrame
  \/ \E d \in 1..Len(drains) : HandleMessageSettles(d) /\ AgentFrame
  \/ pause /\ AgentFrame
  \/ resume /\ AgentFrame
  \/ ShutdownCalled /\ AgentFrame
  \/ SaveMemorySettles /\ AgentFrame
  \/ CleanupResourcesSettles /\ AgentFrame

(***************************************************************************)
(* Specifications: one per component, over the state after construction.   *)
(***************************************************************************)
Init ==
  /\ QueueInit /\ StoreInit /\ BusInit /\ OrchInit /\ ConflictInit /\ ApiInit
  /\ AgentInit

SpecQueue == Init /\ [][NextQueue]_vars

SpecRetry == Init /\ [][NextRetry]_vars

SpecStore == Init /\ [][NextStore]_vars

SpecBus == Init /\ [][NextBus]_vars

\* The orchestrator with each registry of agents.
InitOrch ==
  /\ QueueInit /\ StoreInit /\ BusInit /\ ConflictInit /\ ApiInit /\ AgentInit
  /\ \E registry \in Registries : OrchConstructed(registry)

SpecOrch == InitOrch /\ [][NextOrch]_vars

\* The phase operations of the orchestrator, every agent registered, and of
\* the state store.
InitPhase ==
  /\ QueueInit /\ StoreInit /\ BusInit /\ ConflictInit /\ ApiInit /\ AgentInit
  /\ OrchConstructed(AgentPersona)

SpecPhase == InitPhase /\ [][NextPhase]_vars

\* The phase endpoints of SystemController, on the orchestrator with each
\* registry of agents.
InitControl ==
  /\ QueueInit /\ StoreInit /\ BusInit /\ ConflictInit /\ ApiInit /\ AgentInit
  /\ \E registry \in Registries : OrchConstructed(registry)

SpecControl == InitControl /\ [][NextControl]_vars

SpecDurable == Init /\ [][NextDurable]_vars

SpecStorage == Init /\ [][NextStorage]_vars

\* The State Store read by callers that write to what they are handed.
SpecReads == Init /\ [][NextReads]_vars

\* Calls by id on the dispatcher, the State Store and the message bus.
SpecLookup == Init /\ [][NextLookup]_vars

\* Phase transitions that wait for the taskQueue, on the orchestrator with
\* each registry of agents.
SpecDrain == InitOrch /\ [][NextDrain]_vars

\* The bus and the Store until their histories overflow.
SpecHistory == Init /\ [][NextHistory]_vars

\* The snapshot history and its listing.
SpecSnapshots == Init /\ [][NextSnapshots]_vars

\* One agent, its executeTask calls, its messages and its life cycle.
SpecAgent == Init /\ [][NextAgent]_vars

\* One agent and overlapping executeTask calls on it.
SpecTasks == Init /\ [][NextTasks]_vars

\* The orchestrator configured with the human-override strategy.
InitOverride ==
  /\ QueueInit /\ StoreInit /\ BusInit /\ OrchInit /\ ApiInit /\ AgentInit
  /\ ConflictConfigured("human-override")

SpecOverride == InitOverride /\ [][NextOverride]_vars

\* The life of jobs and the events the dispatcher emits for it.
SpecEvents == Init /\ [][NextEvents]_vars

\* The dispatcher with tasks dispatched and agents signalled overloaded.
SpecOverload == Init /\ [][NextOverload]_vars

\* Task intake (TasksController.createTask) on the orchestrator with each
\* registry of agents.
InitIntake ==
  /\ QueueInit /\ StoreInit /\ BusInit /\ ConflictInit /\ ApiInit /\ AgentInit
  /\ \E registry \in Registries : OrchConstructed(registry)

SpecIntake == InitIntake /\ [][NextIntake]_vars

\* The orchestrator configured with each conflict resolution strategy.
InitConflict ==
  /\ QueueInit /\ StoreInit /\ BusInit /\ OrchInit /\ ApiInit /\ AgentInit
  /\ \E type \in ConflictResolutionTypes : ConflictConfigured(type)

SpecConflict == InitConflict /\ [][NextConflict]_vars

\* The event loop runs every timer that is due and delivers every event
\* that has arrived.
SpecRequest ==
  /\ Init /\ [][NextRequest]_vars
  /\ \A r \in 1..MaxRequests : WF_vars(TimerFires(r) /\ BusFrame)
  /\ WF_vars(OnPMessage /\ BusFrame)
  /\ WF_vars(OnMessage /\ BusFrame)

(***************************************************************************)
(* Claims about the Work Queue.                                            *)
(***************************************************************************)
\* Job i leaves the waiting state for an execution slot in this step.
Dequeued(i) ==
  /\ i \in 1..Len(jobs)
  /\ jobs[i].state = "waiting"
  /\ jobs'[i].state = "active"

\* C1: whenever a worker takes a job, no job waiting in the same queue has a
\* higher task priority (CRITICAL > HIGH > MEDIUM > LOW), and among jobs of
\* equal priority that were never attempted the one submitted first goes
\* first.
C1_DequeuedInPriorityOrder ==
  [][\A i \in 1..Len(jobs) :
       Dequeued(i) =>
         \A k \in JobsOf(jobs[i].name, "waiting") :
           \/ PriorityRank(jobs[k].data.priority) < PriorityRank(jobs[i].data.priority)
           \/ /\ jobs[k].data.priority = jobs[i].data.priority
              /\ (jobs[i].attemptsMade = 0 /\ jobs[k].attemptsMade = 0 => i <= k)]_vars

\* Job i's execution fails in this step.
FailsNow(i) ==
  /\ i \in 1..Len(jobs)
  /\ jobs[i].state = "active"
  /\ jobs'[i].attemptsMade = jobs[i].attemptsMade + 1

\* This step is retryFailedTasks on `agent`: every failed job of that queue
\* waits again, nothing else changes state, and the count is returned.
IsRetryFailedStep(agent) ==
  /\ \A k \in 1..Len(jobs) :
       jobs'[k].state =
         IF k \in JobsOf(agent, "failed") THEN "waiting" ELSE jobs[k].state
  /\ retriedCount' = Cardinality(JobsOf(agent, "failed"))
  /\ Len(jobs') = Len(jobs)

\* C3: a job that has failed more than maxRetries times is marked failed by
\* that failure, and a failed job leaves the failed state only in a
\* retryFailedTasks step on its queue, which re-enqueues every failed job of
\* the queue and returns their number.
C3_RetryExhausted ==
  [][\A i \in 1..Len(jobs) :
       /\ (FailsNow(i) /\ jobs'[i].attemptsMade > maxRetries
             => jobs'[i].state = "failed")
       /\ (jobs[i].state = "failed" /\ jobs'[i].state # "failed"
             => IsRetryFailedStep(jobs[i].name))]_vars

\* C3 witness: a job has failed more than maxRetries times, is marked
\* failed, and a manual retry has re-enqueued failed jobs before.
C3_Witness ==
  \E i \in 1..Len(jobs) :
    /\ jobs[i].attemptsMade > maxRetries
    /\ jobs[i].state = "failed"
    /\ retriedCount >= 1


(***************************************************************************)
(* Claims about the State Store                                            *)
(***************************************************************************)
\* C4: in every state of the State Store the live SystemState holds an
\* entry for each of the six roster roles and for no other key, and each
\* entry is that role's own AgentStateData.
C4_RosterKeys ==
  /\ DOMAIN LiveAgents = AgentPersona
  /\ \A r \in DOMAIN LiveAgents : heap[LiveAgents[r]].persona = r

\* The roster after updates, a shutdown, a restart and a load of the saved
\* state that carries the update.
C4_Witness ==
  /\ lastOp = "loadState:saved"
  /\ LiveState.phase # "planning"

\* The stored value of a snapshot object.
SnapshotContent(h, snapshot) ==
  [id |-> snapshot.id, reason |-> snapshot.reason,
   systemState |-> serializeState(h, snapshot.systemState)]

\* Every snapshot of the list `before` that is still in the list `after`
\* has the content it had.
SameContent(before, after) ==
  \A i \in 1..Len(before) : \A j \in 1..Len(after) :
    after[j].id = before[i].id =>
      SnapshotContent(heap', after[j]) = SnapshotContent(heap, before[i])

\* C5: no step of the Store changes the content of a snapshot that the
\* history retains or that getStateHistory has handed out, so a snapshot
\* keeps the content createSnapshot gave it through every later mutation of
\* the live state.
C5_SnapshotIsolation ==
  [][/\ SameContent(stateHistory, stateHistory')
     /\ SameContent(retrieved, retrieved')]_vars

\* A retrieved snapshot that the live state has since moved away from by a
\* mutation through the API.
C5_Witness ==
  /\ lastOp \in {"updateAgentState", "updateAgentMemory", "updateGlobalContext",
                 "clearShortTermMemory", "setPhase"}
  /\ \E i \in 1..Len(retrieved) :
       /\ \E j \in 1..Len(stateHistory) : stateHistory[j] = retrieved[i]
       /\ serializeState(heap, retrieved[i].systemState)
            # serializeState(heap, currentState)

(***************************************************************************)
(* Claims about the Message Bus                                            *)
(***************************************************************************)
\* How often the callback of subscription i was called with message id.
TimesCalled(i, id) ==
  Cardinality({k \in 1..Len(callbackCalls[i]) : callbackCalls[i][k].id = id})

\* C6: no subscription callback is invoked more than once for the same
\* published message, whatever subscriptions and patterns are registered.
C6_AtMostOnce ==
  \A i \in DOMAIN callbackCalls : \A m \in 1..Len(published) :
    TimesCalled(i, published[m].message.id) <= 1

Settled(r) ==
  IF r \in 1..Len(requests) THEN requests[r].state # "pending" ELSE FALSE

TimedOut(r) ==
  IF r \in 1..Len(requests)
  THEN requests[r].state = "rejected" /\ requests[r].error = "timeout"
  ELSE FALSE

Replied(r) == IF r \in 1..Len(requests) THEN requests[r].replied ELSE FALSE

C2_TransitionAtomic ==
  \A c \in 1..Len(calls) :
    calls[c].op = "transitionPhase" /\ calls[c].status \in {"false", "threw"}
      => calls[c].phaseAtEnd = calls[c].phaseAtStart

\* Persona r is deleted from activeAgents in this step.
Removed(r) == r \in DOMAIN activeAgents /\ r \notin DOMAIN activeAgents'

\* In this step call c, which was waiting for r to become idle, ends its
\* wait for the reason given and shuts r down.
StoppedBy(c, r, reason) ==
  /\ calls[c].status = "stopping"
  /\ Head(calls[c].waiting) = r
  /\ calls'[c].stopped =
       Append(calls[c].stopped, [persona |-> r, reason |-> reason, wasActive |-> TRUE])
  /\ agents'[r] = shutdown(agents[r])

\* C8: an agent is deleted from activeAgents only when it is idle; one that
\* is not idle when initializePhase gets to it is first waited for, until it
\* is idle or the stop timeout is over, and shut down, and deleted only
\* then: never while it is working.
C8_StoppedBeforeRemoved ==
  [][\A r \in DOMAIN activeAgents :
       Removed(r) =>
         /\ agents'[r].state = "idle"
         /\ \/ agents[r].state = "idle"
            \/ \E c \in 1..Len(calls) : StoppedBy(c, r, "timeout")]_vars

\* qa_engineer, active and working when initializePhase('deploy') was
\* called, has been waited for, shut down at the timeout and deleted.
C8_Witness ==
  \E c \in 1..Len(calls) : \E k \in 1..Len(calls[c].stopped) :
    /\ calls[c].op = "initializePhase"
    /\ calls[c].phase = "deploy"
    /\ calls[c].stopped[k] =
         [persona |-> "qa_engineer", reason |-> "timeout", wasActive |-> TRUE]
    /\ "qa_engineer" \notin DOMAIN activeAgents
    /\ agents["qa_engineer"].running # {}

\* The role of `roles` that comes first in the precedence list.
SeniorityRank(r) == CHOOSE j \in 1..Len(seniorityOrder) : seniorityOrder[j] = r

Seniormost(roles) ==
  CHOOSE r \in RangeOf(roles) :
    \A q \in RangeOf(roles) : SeniorityRank(r) <= SeniorityRank(q)

\* C9: under the seniority strategy resolveConflict asks the role of the
\* list that comes first in the precedence list, and no other, and returns
\* its decision, whatever the order of the list: tech_lead whenever
\* tech_lead is in it.
C9_SeniorityDecides ==
  \A i \in 1..Len(conflicts) :
    conflicts[i].strategy = "seniority" /\ conflicts[i].roles # <<>> =>
      /\ conflicts[i].status = "resolved"
      /\ conflicts[i].consulted = <<Seniormost(conflicts[i].roles)>>
      /\ conflicts[i].result =
           requestAgentDecision(Seniormost(conflicts[i].roles), conflicts[i].context)
      /\ "tech_lead" \in RangeOf(conflicts[i].roles) =>
           conflicts[i].consulted = <<"tech_lead">>

\* resolveConflict([a, tech_lead, c], ctx) under seniority, resolved.
C9_Witness ==
  \E i \in 1..Len(conflicts) :
    /\ conflicts[i].strategy = "seniority"
    /\ Len(conflicts[i].roles) = 3
    /\ conflicts[i].roles[1] # "tech_lead"
    /\ conflicts[i].roles[2] = "tech_lead"
    /\ conflicts[i].consulted = <<"tech_lead">>

\* Every exit criterion of `phase` evaluates true.
ExitCriteriaMet(phase) ==
  \A j \in 1..Len(getPhaseExitCriteria(phase)) :
    checkExitCriterion(getPhaseExitCriteria(phase)[j])

NoPhaseOperationInProgress ==
  \A c \in 1..Len(calls) : calls[c].status # "stopping"

\* C13: whenever no phase operation is in progress, the orchestrator's
\* currentPhase and the store's SystemState.phase name the same phase.
C13_OnePhaseSystemWide ==
  NoPhaseOperationInProgress => currentPhase = LiveState.phase

\* The calls of initializePhase / transitionPhase that have begun and not
\* ended.
InProgress == {c \in 1..Len(calls) : calls[c].status = "stopping"}

QueuedFor(n, role) ==
  \E i \in 1..Len(jobs) :
    /\ jobs[i].data.id = taskRequests[n].task.id
    /\ jobs[i].name = role
    /\ jobs[i].state # "removed"

AssignTaskCalled ==
  /\ Len(taskRequests') = Len(taskRequests) + 1
  /\ taskRequests'[Len(taskRequests')].requested = "none"

\* C15: assignTask called when no active agent is both available and under
\* the load threshold throws the no-available-agent error: nothing is
\* dispatched or executed, task.assignedTo stays what it was and
\* task:assigned is not emitted, then or later.
C15_NoAvailableAgent ==
  [][/\ AssignTaskCalled /\ getAvailableAgents = <<>> =>
          /\ taskRequests'[Len(taskRequests')].status = "error"
          /\ taskRequests'[Len(taskRequests')].error
               = "No available agent for task assignment"
          /\ taskRequests'[Len(taskRequests')].task
               = taskRequests'[Len(taskRequests')].submitted
          /\ ~taskRequests'[Len(taskRequests')].assignedEvent
          /\ UNCHANGED <<queueVars, agents>>
     /\ \A n \in 1..Len(taskRequests) :
          taskRequests[n].status = "error" => taskRequests'[n] = taskRequests[n]]_vars

\* assignTask has thrown the error although agents are active: none of
\* them passed the availability and load test.
C15_Witness ==
  \E n \in 1..Len(taskRequests) :
    /\ taskRequests[n].requested = "none"
    /\ taskRequests[n].candidates = <<>>
    /\ taskRequests[n].status = "error"
    /\ taskRequests[n].active # {}
    /\ jobs = <<>>

\* C17: every task the dispatcher holds is assigned to a roster role and is
\* a job of that role's queue and of no other, and every queue is the queue
\* of a roster role.
C17_QueuesWithinRoster ==
  /\ taskQueues \subseteq AgentPersona
  /\ \A i \in 1..Len(jobs) :
       /\ jobs[i].data.assignedTo \in AgentPersona
       /\ jobs[i].name = jobs[i].data.assignedTo

(***************************************************************************)
(* Claims about redistribution                                             *)
(***************************************************************************)
\* C16: when an agent is signalled overloaded, every job waiting in its
\* queue is removed from it and a job with the same task priority is added
\* to the queue of another role.
C16_OverloadedQueueRedistributed ==
  [][Len(overloadSignals') = Len(overloadSignals) + 1 =>
       LET R == overloadSignals'[Len(overloadSignals')].agent
       IN \A i \in JobsOf(R, "waiting") :
            /\ jobs'[i].state = "removed"
            /\ \E k \in (Len(jobs) + 1)..Len(jobs') :
                 /\ jobs'[k].name # R
                 /\ jobs'[k].state = "waiting"
                 /\ jobs'[k].priority = jobs[i].priority]_vars

(***************************************************************************)
(* Claims about delivery on the bus                                        *)
(***************************************************************************)
\* The step hands the first 'pmessage' event to handleIncomingMessage.
Delivering == listening /\ pmessages # <<>> /\ pmessages' = Tail(pmessages)

\* C18: when a message is delivered, every handler and every subscription
\* callback whose pattern matches is invoked with it, whether or not
\* another recipient throws.
C18_EveryRecipientInvoked ==
  [][Delivering =>
       /\ \A i \in DOMAIN messageHandlers :
            matchPattern(Head(pmessages).pattern, messageHandlers[i].pattern) =>
              handlerCalls'[i] = Append(handlerCalls[i], Head(pmessages).message)
       /\ \A i \in DOMAIN subscriptions :
            (\E j \in 1..Len(subscriptions[i].patterns) :
               matchPattern(Head(pmessages).pattern, subscriptions[i].patterns[j])) =>
              callbackCalls'[i] = Append(callbackCalls[i], Head(pmessages).message)]_vars

\* C19: for every message published to qa_engineer, to a list that holds
\* qa_engineer or to all, a subscription to agent:qa_engineer gets a
\* delivery its callback is called for.
C19_RoleChannelReceivesAll ==
  [][Len(published') = Len(published) + 1
       /\ published'[Len(published')].message.toAgent \in {"qa_engineer", "array", "all"} =>
     \A i \in DOMAIN subscriptions :
       "agent:qa_engineer" \in RangeOf(subscriptions[i].patterns) =>
         \E k \in (Len(pmessages) + 1)..Len(pmessages') :
           /\ pmessages'[k].message.id = published'[Len(published')].message.id
           /\ \E j \in 1..Len(subscriptions[i].patterns) :
                matchPattern(pmessages'[k].pattern, subscriptions[i].patterns[j])]_vars

\* C20: once a request has settled, its timer is not armed, its reply
\* channel is not subscribed and its 'message' listener is gone.
C20_SettledRequestCleanedUp ==
  \A r \in 1..Len(requests) :
    requests[r].state # "pending" =>
      /\ requests[r].timer # "armed"
      /\ r \notin redisChannels
      /\ ~requests[r].listener

(***************************************************************************)
(* Claims about reads, durability and storage errors of the State Store    *)
(***************************************************************************)
\* C21: a caller that writes to the value a read of the Store handed it
\* (a SystemState with its agents map and global context, an agent's state
\* record, a memory tier, a list of snapshots) never changes the Store's
\* live SystemState.
C21_ReadsAreDefensiveCopies ==
  [][lastOp' = "caller" /\ storeOps' = storeOps + 1 =>
       serializeState(heap', currentState') = serializeState(heap, currentState)]_vars

\* C22: the snapshot a setPhase call appends records the phase that was
\* current before the call.
C22_SetPhaseSnapshotsFirst ==
  [][lastOp' = "setPhase" /\ storeOps' = storeOps + 1 =>
       heap'[stateHistory'[Len(stateHistory')].systemState].phase = LiveState.phase]_vars

\* A snapshot of this id is in the history, put there by createSnapshot.
Captured(id, j) == j \in 1..Len(stateHistory) /\ stateHistory[j].id = id

\* C23: restoreSnapshot(s), for an id s that createSnapshot returned, makes
\* the live state equal to the state captured by that createSnapshot
\* (phase, every agent's record, global context) and saves it as the
\* current state, whatever was done to the live state in between.
C23_RestoreReplacesLiveState ==
  [][\A id \in 1..nextSnapshotId : \A j \in 1..Len(stateHistory) :
       Captured(id, j) /\ storeOps' = storeOps + 1 /\ restoreSnapshot(id) =>
         /\ lastOp' = "restoreSnapshot"
         /\ StateContent(heap', currentState')
              = StateContent(heap, stateHistory[j].systemState)
         /\ redis'.current = <<serializeState(heap', currentState')>>]_vars

\* The mutating calls of the Store, as outcomes: completed without error.
MutatingCalls ==
  {"updateAgentState", "updateAgentMemory", "clearShortTermMemory",
   "updateGlobalContext", "setPhase"}

\* C24: when a process ends right after a mutating call has completed, the
\* durable key that the next process loads at startup holds the live state
\* with that mutation.
C24_MutationsAreDurable ==
  [][lifecycle = "running" /\ lifecycle' = "constructed" /\ lastOp \in MutatingCalls =>
       redis.current = <<serializeState(heap, currentState)>>]_vars

\* C25: a mutating call made while the durable write fails completes
\* normally (and so reaches the emit of its event) instead of ending with
\* the storage error.
C25_WriteFailureDoesNotFailCaller ==
  [][/\ ~redisUp
     /\ storeOps' = storeOps + 1
     /\ lastOp' \in (MutatingCalls \cup {"createSnapshot"})
                      \cup {StorageError(op) : op \in MutatingCalls \cup {"createSnapshot"}}
     => lastOp' \in MutatingCalls \cup {"createSnapshot"}]_vars

(***************************************************************************)
(* Claims about calls by id, bounded histories and job notifications       *)
(***************************************************************************)
\* What is kept of the services across a call by id.
ServiceState ==
  <<queueVars, heap, currentState, stateHistory, redis, nextSnapshotId,
    busVars>>

NotFoundErrors == {"Task not found", "Snapshot not found", "Subscription not found"}

\* C26: every getTaskStatus, cancelTask, restoreSnapshot and unsubscribe
\* whose id is not found fails with a not-found error and leaves the state
\* of the services unchanged.
C26_UnknownIdFailsNotFound ==
  [][Len(lookups') = Len(lookups) + 1 /\ ~lookups'[Len(lookups')].found =>
       /\ lookups'[Len(lookups')].outcome \in NotFoundErrors
       /\ ServiceState' = ServiceState]_vars

\* The dispatcher has emitted `event` for job i.
Emitted(event, i) == [event |-> event, taskId |-> i] \in taskEvents

\* The job was removed by cancelTask.
Cancelled(i) ==
  \E n \in 1..Len(lookups) :
    /\ lookups[n].op = "cancelTask" /\ lookups[n].id = i
    /\ lookups[n].found /\ lookups[n].outcome = "returned"

\* C30: every job has its dispatched event; a job that was started has its
\* processing event, a completed one its completed event, a terminally
\* failed one its failed event and a cancelled one its cancelled event;
\* and no event is there without its transition.
C30_EveryTransitionNotified ==
  /\ \A i \in 1..Len(jobs) :
       /\ Emitted("task:dispatched", i)
       /\ jobs[i].state \in {"active", "completed", "failed", "delayed"}
            \/ jobs[i].attemptsMade > 0 => Emitted("task:processing", i)
       /\ jobs[i].state = "completed" => Emitted("task:completed", i)
       /\ jobs[i].state = "failed" => Emitted("task:failed", i)
       /\ Cancelled(i) => Emitted("task:cancelled", i)
       /\ jobs[i].state = "removed" =>
            Emitted("task:completed", i) \/ Emitted("task:cancelled", i)
  /\ \A ev \in taskEvents :
       /\ ev.taskId \in 1..Len(jobs)
       /\ ev.event = "task:completed" => jobs[ev.taskId].state \in {"completed", "removed"}
       /\ ev.event = "task:failed" =>
            jobs[ev.taskId].attemptsMade >= jobs[ev.taskId].attempts
       /\ ev.event = "task:cancelled" => Cancelled(ev.taskId)

InitializePhaseReturns(c) ==
  /\ c \in 1..Len(calls')
  /\ calls'[c].op = "initializePhase" /\ calls'[c].status = "returned"
  /\ c \in 1..Len(calls) => calls[c].status # "returned"

PushedFIFO(before, after, entry, cap) ==
  /\ Len(after) <= cap
  /\ after[Len(after)] = entry
  /\ SubSeq(after, 1, Len(after) - 1)
       = IF Len(before) = cap THEN Tail(before) ELSE before

\* C27: the message history never holds more than 1000 messages and the
\* snapshot history never more than 100 snapshots; every publish or
\* broadcast and every createSnapshot or setPhase puts its entry at the end
\* and drops exactly the oldest entry of a full history, the others keeping
\* their order.
C27_HistoriesAreBoundedFIFO ==
  [][/\ Len(messageHistory') <= 1000 /\ Len(stateHistory') <= 100
     /\ Len(published') = Len(published) + 1 =>
          PushedFIFO(messageHistory, messageHistory',
                     published'[Len(published')].message.id, 1000)
     /\ nextSnapshotId' = nextSnapshotId + 1 =>
          /\ stateHistory'[Len(stateHistory')].id = nextSnapshotId
          /\ PushedFIFO(stateHistory, stateHistory',
                        stateHistory'[Len(stateHistory')], 100)]_vars

\* Both histories are full and have dropped their oldest entries.
C27_Witness ==
  /\ Len(messageHistory) = 1000 /\ messageHistory[1] > 1
  /\ Len(stateHistory) = 100 /\ stateHistory[1].id > 1

Suspended == {i \in 1..Len(conflicts) : conflicts[i].status = "pending"}

C40_HistoryLimit ==
  [][\A limit \in 0..MaxLimit :
       storeOps' = storeOps + 1 /\ getStateHistory(limit) =>
         /\ Len(retrieved') <= limit
         /\ \A k \in 1..Len(retrieved') :
              retrieved'[k] = stateHistory[Len(stateHistory) - Len(retrieved') + k]
         /\ Len(retrieved') = limit \/ Len(retrieved') = Len(stateHistory)]_vars

\* A message published on `channel` reaches the callback of subscription
\* `sub` when the connection has psubscribed `patterns`.
Receives(patterns, sub, channel) ==
  LET events == PMessagesFor(patterns, channel, NewMessage("qa_engineer", "TASK"))
  IN \E k \in 1..Len(events) : \E j \in 1..Len(sub.patterns) :
       matchPattern(events[k].pattern, sub.patterns[j])

\* C37: unsubscribe(subscriptionId) affects only that subscription: every
\* other subscription that received the messages of a channel still
\* receives them, and the bus keeps its own subscription to agent:*.
C37_UnsubscribeAffectsOnlyItself ==
  [][\A id \in DOMAIN subscriptions :
       id \notin DOMAIN subscriptions' /\ unsubscribe(id) =>
         /\ \A i \in DOMAIN subscriptions' :
              \A channel \in {"agent:qa_engineer", "agent:tech_lead",
                              "agent:multicast", "agent:broadcast"} :
                Receives(redisPatterns, subscriptions[i], channel) =>
                  Receives(redisPatterns', subscriptions[i], channel)
         /\ "agent:*" \in RangeOf(redisPatterns) =>
              "agent:*" \in RangeOf(redisPatterns')]_vars

\* C35: an agent never reports state 'idle' while a task it started is
\* still executing: with overlapping executeTask calls, state = 'idle'
\* implies that currentTasks is empty.
C35_IdleMeansNoTask ==
  baseAgent.state = "idle" => baseAgent.currentTasks = <<>>

\* C31: an executeTask call that fails (validateTask or performTask throws)
\* never changes tasksCompleted, and when it rejects it has emitted
\* task:error for its task, the agent is in state 'blocked' and the task is
\* out of currentTasks.
C31_FailedCallLeavesBlocked ==
  [][\A c \in 1..Len(execs) :
       /\ execs[c].fault # "none" /\ execs'[c].pc # execs[c].pc =>
            baseAgent'.tasksCompleted = baseAgent.tasksCompleted
       /\ execs[c].pc # "threw" /\ execs'[c].pc = "threw" =>
            /\ \E e \in agentEvents' :
                 e.event = "task:error" /\ e.subject = execs[c].task
            /\ baseAgent'.state = "blocked"
            /\ \A k \in 1..Len(baseAgent'.currentTasks) :
                 baseAgent'.currentTasks[k] # execs[c].task]_vars

\* An event of that name for that task is among the events.
TaskEvent(events, event, task) ==
  \E e \in events : e.event = event /\ e.subject = task

\* C32: a successful executeTask call emits task:started and then
\* task:completed for its task, and when it returns tasksCompleted is one
\* more and the task is out of currentTasks; after any executeTask calls,
\* overlapping ones included, tasksCompleted is the number of calls that
\* returned.
C32_SuccessfulCallsCounted ==
  [][/\ \A c \in 1..Len(execs) :
          /\ TaskEvent(agentEvents' \ agentEvents, "task:completed", execs[c].task) =>
               TaskEvent(agentEvents, "task:started", execs[c].task)
          /\ execs[c].pc # "returned" /\ execs'[c].pc = "returned" =>
               /\ TaskEvent(agentEvents, "task:completed", execs[c].task)
               /\ baseAgent'.tasksCompleted = baseAgent.tasksCompleted + 1
               /\ \A k \in 1..Len(baseAgent'.currentTasks) :
                    baseAgent'.currentTasks[k] # execs[c].task
     /\ baseAgent'.tasksCompleted =
          Cardinality({c \in 1..Len(execs') : execs'[c].pc = "returned"})]_vars

\* Two overlapping calls: one has returned and was counted while the other,
\* which had set the state to 'working', is about to return.
C32_Witness ==
  /\ baseAgent.tasksCompleted = 1
  /\ baseAgent.state = "idle"
  /\ \E c, d \in 1..Len(execs) :
       execs[c].pc = "returned" /\ execs[d].pc = "reportTaskCompletion"

\* C33: when shutdown() returns the agent is in state 'idle' with no
\* current task and no queued message, and the listeners registered for
\* 'agent:shutdown' before the call have been called with the event.
C33_ShutdownNotifiesListeners ==
  [][shutdownPc # "returned" /\ shutdownPc' = "returned" =>
       /\ baseAgent'.state = "idle"
       /\ baseAgent'.currentTasks = <<>>
       /\ baseAgent'.messageQueue = <<>>
       /\ \E e \in agentEvents' : e.event = "agent:shutdown" /\ e.heard]_vars

\* C34: a paused agent stays 'paused' until resume() is called (or
\* shutdown(), or executeTask anew), whatever the calls of executeTask in
\* progress do, and handles no queued message meanwhile.
C34_PausedUntilResumed ==
  [][/\ baseAgent.state = "paused"
     /\ EmittedCount("agent:resumed")' = EmittedCount("agent:resumed")
     /\ shutdownPc' = shutdownPc
     /\ Len(execs') = Len(execs)
     => baseAgent'.state = "paused" /\ handled' = handled]_vars

\* Every call of executeTask and every queue loop has ended, and the agent
\* was not shut down.
Quiescent ==
  /\ \A c \in 1..Len(execs) : execs[c].pc \in {"returned", "threw"}
  /\ \A d \in 1..Len(drains) : drains[d].pc \in {"returned", "threw"}
  /\ shutdownPc = "none"

\* C36: messages are handled in arrival order, and none stays queued once
\* the agent is idle again: when every call and every queue loop has ended
\* and the agent, not shut down, is 'idle', its queue is empty.
C36_QueueDrainedInOrder ==
  /\ \A i, j \in 1..Len(handled) : i < j => handled[i] < handled[j]
  /\ Quiescent /\ baseAgent.state = "idle" => baseAgent.messageQueue = <<>>

====
